---- MODULE Spec2Model ----
(***************************************************************************)
(* A model of the OCI launcher of apptainer: Launcher.Exec and the spec    *)
(* finalization (internal/pkg/runtime/launcher/oci/launcher_linux.go) and  *)
(* the native bundle (pkg/ocibundle/native/bundle_linux.go).               *)
(*                                                                         *)
(* Conventions: an optional value (a nil pointer, an empty string that     *)
(* means "not set") is a sequence of length 0 or 1; an ID mapping triple   *)
(* is a record [ContainerID, HostID, Size] as specs.LinuxIDMapping.        *)
(***************************************************************************)
EXTENDS Integers, Sequences, FiniteSets, TLC

VARIABLES
    pc,           \* position of the launch inside Launcher.Exec
    cfg,          \* launcher.Options of the Launcher (l.cfg)
    params,       \* process and args handed to Exec
    host,         \* the invoking user: uid, gid, subordinate ID ranges
    imageSpec,    \* b.imageSpec: <<>> until fetchImage read the image config
    spec,         \* the runtime spec the launcher builds: <<>> or <<spec>>
    config,       \* config.json of the bundle: <<>> or <<spec>>
    bundleDir,    \* TRUE while the bundle directory exists on disk
    rootfs,       \* TRUE while the extracted rootfs exists in the bundle
    ociTmp,       \* the temporary OCI layout: "none", "present", "removed"
    sessionTmpfs, \* TRUE while the session tmpfs is mounted
    deferArmed,   \* TRUE once Exec registered its deferred bundle removal
    runErr,       \* what RunWrapped returned: "none" before it ran
    result,       \* how Exec ended: [kind, err, code]
    log,          \* the phases of the pipeline that completed, in order
    fnIn,         \* input of the function under test (function harnesses)
    fnOut         \* its result: <<>> until applied

vars == <<pc, cfg, params, host, imageSpec, spec, config, bundleDir, rootfs,
          ociTmp, sessionTmpfs, deferArmed, runErr, result, log, fnIn, fnOut>>

execVars == <<pc, cfg, params, host, imageSpec, spec, config, bundleDir, rootfs,
              ociTmp, sessionTmpfs, deferArmed, runErr, result, log>>

----------------------------------------------------------------------------
(* Program constants and the input sets of the model.                      *)

\* IDs are uint32 in the code. Every subtraction below is guarded by the
\* comparison that keeps it non-negative and every sum stays far below 2^31,
\* so the integers of the model never leave the uint32 range.

\* "We must be able to map at least 0->65535 inside the container"
MinRangeSize == 65536

\* A subordinate ID range as fakeroot.GetIDRange returns it: ok = FALSE is the
\* error return (no entry for the user).
NoRange == [ok |-> FALSE, HostID |-> 0, Size |-> 0]

Range(size) == [ok |-> TRUE, HostID |-> 100000, Size |-> size]

SubRanges == {NoRange, Range(MinRangeSize - 1), Range(MinRangeSize)}

\* uid:gid pairs of the invoking user (rootless.Getuid / rootless.Getgid)
HostIDs == {[uid |-> 0, gid |-> 0], [uid |-> 1000, gid |-> 1000],
            [uid |-> 1000, gid |-> 100]}

\* uid:gid an image USER resolves to (tools.BundleUser, strconv.ParseUint)
ImageUIDs == {0, 1000, 70000}

ImageGIDs == {0, 2000, 80000}

ImageUsers == {<<>>} \cup {<<[UID |-> u, GID |-> g]>> : u \in ImageUIDs, g \in ImageGIDs}

Entrypoints == {<<>>, <<"ENTRYPOINT">>}

Cmds == {<<>>, <<"CMD">>}

Processes == {"", "PROCESS"}

ArgLists == {<<>>, <<"ARGS">>}

Mapping(c, h, s) == [ContainerID |-> c, HostID |-> h, Size |-> s]

UserNamespace == "user"

----------------------------------------------------------------------------
(* The native bundle: pkg/ocibundle/native/bundle_linux.go                 *)

\* setProcessArgs that appends the image Cmd also under a process override.
setProcessArgsKeepCmd(process, args, img) ==
    LET processArgs == IF process # "" THEN <<process>> ELSE img.Entrypoint
    IN  IF Len(args) > 0 THEN processArgs \o args ELSE processArgs \o img.Cmd

\* Bundle.setProcessArgs: the argv from the process / args of the bundle and
\* the image's Entrypoint / Cmd.
setProcessArgs(process, args, img) ==
    LET processArgs == IF process # "" THEN <<process>> ELSE img.Entrypoint
    IN  IF Len(args) > 0
        THEN processArgs \o args
        ELSE IF process = "" THEN processArgs \o img.Cmd ELSE processArgs

\* The UID (or GID) mapping Bundle.setProcessUser builds for a non-root id:
\* own id preserved, everything else mapped into the subordinate range.
bundleIDMap(id, range) ==
    IF id < 65536
    THEN << Mapping(0, range.HostID, id),
            Mapping(id, id, 1),
            Mapping(id + 1, range.HostID + id, range.Size - id) >>
    ELSE << Mapping(0, range.HostID, 65536),
            Mapping(id, id, 1) >>

\* setProcessUser that sets the mappings without the user namespace.
setProcessUserNoNamespace(g, uid, gid, subuidRange, subgidRange) ==
    IF uid = 0 \/ ~subuidRange.ok \/ ~subgidRange.ok THEN [err |-> uid # 0, g |-> g]
    ELSE [err |-> FALSE,
          g |-> [g EXCEPT !.UIDMappings = bundleIDMap(uid, subuidRange),
                          !.GIDMappings = bundleIDMap(gid, subgidRange)]]

\* Bundle.setProcessUser on the generator's config g, for os.Getuid() = uid,
\* os.Getgid() = gid and the subordinate ranges of the user. Returns the
\* error flag and the config as the function leaves it.
setProcessUser(g, uid, gid, subuidRange, subgidRange) ==
    IF uid = 0 THEN [err |-> FALSE, g |-> g]
    ELSE
      LET g1 == [g EXCEPT !.Process = <<[Head(g.Process) EXCEPT
                                          !.User = [UID |-> uid, GID |-> gid]]>>]
      IN  IF ~subuidRange.ok THEN [err |-> TRUE, g |-> g1]
          ELSE IF subuidRange.Size < MinRangeSize THEN [err |-> TRUE, g |-> g1]
          ELSE IF ~subgidRange.ok THEN [err |-> TRUE, g |-> g1]
          ELSE IF subgidRange.Size <= gid THEN [err |-> TRUE, g |-> g1]
          ELSE [err |-> FALSE,
                g |-> [g1 EXCEPT
                         !.UIDMappings = bundleIDMap(uid, subuidRange),
                         !.GIDMappings = bundleIDMap(gid, subgidRange),
                         !.Namespaces = Append(g1.Namespaces, "user")]]

\* generate.Generator.SetProcessArgs: creates the Process block when the
\* config has none, then sets its Args.
SetProcessArgs(g, args) ==
    IF g.Process = <<>>
    THEN [g EXCEPT !.Process = <<[User |-> [UID |-> 0, GID |-> 0], Args |-> args]>>]
    ELSE [g EXCEPT !.Process = <<[Head(g.Process) EXCEPT !.Args = args]>>]

\* The part of Bundle.Create after the image is extracted: setProcessArgs,
\* setProcessEnv, setProcessUser on the generator made from the launcher's
\* spec. Returns the error flag and the config to be written.
createConfig(ociConfig, process, args, img, h) ==
    LET g1 == SetProcessArgs(ociConfig, setProcessArgs(process, args, img))
    IN  setProcessUser(g1, h.uid, h.gid, h.subuid, h.subgid)

----------------------------------------------------------------------------
(* The launcher: internal/pkg/runtime/launcher/oci/launcher_linux.go       *)

\* minimalSpec: the namespaces every container gets, no Process block, no
\* ID mappings.
minimalSpec ==
    [Namespaces |-> <<"ipc", "pid", "mount">>,
     UIDMappings |-> <<>>,
     GIDMappings |-> <<>>,
     Process |-> <<>>]

\* launcher.Namespaces of a launch that requests none
NoNamespaces == [User |-> FALSE, Net |-> FALSE, UTS |-> FALSE]

\* addNamespaces(spec, ns): the requested namespaces the minimal spec does not
\* have yet are added to the list.
addNamespaces(sp, ns) ==
    [sp EXCEPT !.Namespaces =
        @ \o (IF ns.Net THEN <<"network">> ELSE <<>>)
          \o (IF ns.User THEN <<UserNamespace>> ELSE <<>>)
          \o (IF ns.UTS THEN <<"uts">> ELSE <<>>)]

\* Launcher.createSpec: the spec before the image is known.
createSpec(l) == addNamespaces(minimalSpec, l.Namespaces)

\* reverseMap whose pass-through triple is one id short.
reverseMapShort(targetID, size) ==
    IF targetID < size
    THEN << Mapping(0, 1, targetID),
            Mapping(targetID, 0, 1),
            Mapping(targetID + 1, targetID + 1, size - targetID - 1) >>
    ELSE << Mapping(0, 1, size),
            Mapping(targetID, 0, 1) >>

\* reverseMap that takes the three-triple branch also for targetID = size.
reverseMapInclusive(targetID, size) ==
    IF targetID <= size
    THEN << Mapping(0, 1, targetID),
            Mapping(targetID, 0, 1),
            Mapping(targetID + 1, targetID + 1, size - targetID) >>
    ELSE << Mapping(0, 1, size),
            Mapping(targetID, 0, 1) >>

\* One ID class of reverseMapByRange: the target id maps to host id 0 (the
\* user namespace root the runtime is started from), the ids below it shift
\* up by one, the ids above it pass through. The pass-through triple has
\* length size - targetID: TestLauncher_reverseMapByRange expects 64536 for
\* target 1000 and 63536 for target 2000 in ranges of 65536.
reverseMap(targetID, size) ==
    IF targetID < size
    THEN << Mapping(0, 1, targetID),
            Mapping(targetID, 0, 1),
            Mapping(targetID + 1, targetID + 1, size - targetID) >>
    ELSE << Mapping(0, 1, size),
            Mapping(targetID, 0, 1) >>

\* reverseMapByRange: the UID and the GID mapping, each from its own target
\* and its own subordinate range.
reverseMapByRange(targetUID, targetGID, subuidRange, subgidRange) ==
    [uidMap |-> reverseMap(targetUID, subuidRange.Size),
     gidMap |-> reverseMap(targetGID, subgidRange.Size)]

\* getReverseUserMaps: looks up the subordinate ranges of the host user and
\* fails when one is missing or smaller than 65536.
getReverseUserMaps(h, targetUID, targetGID) ==
    IF \/ ~h.subuid.ok \/ h.subuid.Size < MinRangeSize
       \/ ~h.subgid.ok \/ h.subgid.Size < MinRangeSize
    THEN [err |-> TRUE, uidMap |-> <<>>, gidMap |-> <<>>]
    ELSE [err |-> FALSE] @@ reverseMapByRange(targetUID, targetGID, h.subuid, h.subgid)

\* getProcessArgs (tested by TestGetProcessArgs): the same table as
\* Bundle.setProcessArgs.
getProcessArgs(img, process, args) == setProcessArgs(process, args, img)

\* Launcher.getProcess: the Process block for user u.
getProcess(img, process, args, u) ==
    [User |-> u, Args |-> getProcessArgs(img, process, args)]

\* targetUser in which a declared USER wins over fakeroot.
targetUserImageFirst(l, h, img) ==
    IF img.User # <<>> THEN Head(img.User)
    ELSE IF l.Fakeroot THEN [UID |-> 0, GID |-> 0]
    ELSE [UID |-> h.uid, GID |-> h.gid]

\* The target identity finalizeSpec computes: the invoking user, replaced by
\* the image's USER when declared, replaced by 0:0 under fakeroot.
targetUser(l, h, img) ==
    LET own == [UID |-> h.uid, GID |-> h.gid]
        fromImage == IF img.User # <<>> THEN Head(img.User) ELSE own
    IN  IF l.Fakeroot THEN [UID |-> 0, GID |-> 0] ELSE fromImage

\* finalizeSpec that installs the reverse mapping only when the target differs
\* from the invoking user.
finalizeSpecMapIfDifferent(l, h, sp, imgOpt, process, args, fail) ==
    IF imgOpt = <<>> \/ fail # "none" THEN [err |-> TRUE, spec |-> sp]
    ELSE
      LET img == Head(imgOpt)
          u == targetUser(l, h, img)
          needMap == u.UID # 0 /\ h.uid # 0 /\ u.UID # h.uid
          maps == getReverseUserMaps(h, u.UID, u.GID)
          sp1 == IF needMap /\ ~maps.err
                 THEN [sp EXCEPT !.UIDMappings = maps.uidMap,
                                 !.GIDMappings = maps.gidMap,
                                 !.Namespaces = Append(sp.Namespaces, UserNamespace)]
                 ELSE sp
      IN  [err |-> needMap /\ maps.err,
           spec |-> [sp1 EXCEPT !.Process = <<getProcess(img, process, args, u)>>]]

\* finalizeSpec that asks for the reverse mapping whenever the invoking user is
\* not root, whatever the target.
finalizeSpecMapAlways(l, h, sp, imgOpt, process, args, fail) ==
    IF imgOpt = <<>> \/ fail # "none" THEN [err |-> TRUE, spec |-> sp]
    ELSE
      LET img == Head(imgOpt)
          u == targetUser(l, h, img)
          needMap == h.uid # 0
          maps == getReverseUserMaps(h, u.UID, u.GID)
          sp1 == IF needMap /\ ~maps.err
                 THEN [sp EXCEPT !.UIDMappings = maps.uidMap,
                                 !.GIDMappings = maps.gidMap,
                                 !.Namespaces = Append(sp.Namespaces, UserNamespace)]
                 ELSE sp
      IN  [err |-> needMap /\ maps.err,
           spec |-> [sp1 EXCEPT !.Process = <<getProcess(img, process, args, u)>>]]

\* finalizeSpec that returns without assigning spec.Process.
finalizeSpecNoProcess(l, h, sp, imgOpt, process, args, fail) ==
    IF imgOpt = <<>> \/ fail # "none" THEN [err |-> TRUE, spec |-> sp]
    ELSE [err |-> FALSE, spec |-> sp]

\* Launcher.finalizeSpec up to (not including) b.Update. fail names the
\* collaborator that returns an error in this run, "none" when none does.
\* Returns the error flag and the spec as the function leaves it: the spec
\* is changed in place, so what was set before an error stays set.
finalizeSpec(l, h, sp, imgOpt, process, args, fail) ==
    IF imgOpt = <<>> \/ fail = "getuid" THEN [err |-> TRUE, spec |-> sp]
    ELSE
      LET img == Head(imgOpt)
          containerUser == img.User # <<>>
          u == targetUser(l, h, img)
          needMap == u.UID # 0 /\ h.uid # 0
          maps == getReverseUserMaps(h, u.UID, u.GID)
          sp1 == IF needMap /\ ~maps.err
                 THEN [sp EXCEPT !.UIDMappings = maps.uidMap,
                                 !.GIDMappings = maps.gidMap,
                                 !.Namespaces = Append(sp.Namespaces, UserNamespace)]
                 ELSE sp
          sp2 == [sp1 EXCEPT !.Process = <<getProcess(img, process, args, u)>>]
      IN  IF containerUser /\ fail = "bundleUser" THEN [err |-> TRUE, spec |-> sp]
          ELSE IF needMap /\ maps.err THEN [err |-> TRUE, spec |-> sp]
          ELSE IF fail = "getProcess" THEN [err |-> TRUE, spec |-> sp1]
          ELSE IF fail = "cdi" THEN [err |-> TRUE, spec |-> sp2]
          ELSE IF fail = "etc" \/ (containerUser /\ l.CustomHome)
               THEN [err |-> TRUE, spec |-> sp2]
          ELSE [err |-> FALSE, spec |-> sp2]

FinalizeFailures == {"none", "getuid", "bundleUser", "getProcess", "cdi", "etc"}

----------------------------------------------------------------------------
(* Process capabilities: Launcher.getBaseCapabilities and                  *)
(* Launcher.getProcessCapabilities. A capability list is a sequence of     *)
(* capability names, as the []string of specs.LinuxCapabilities.           *)

Capabilities == {"CAP_CHOWN", "CAP_SETUID", "CAP_SYSLOG"}

\* oci.DefaultCaps: the default capability list of an OCI container. As in
\* the tests, CAP_SETUID is on it and CAP_SYSLOG is not.
DefaultCaps == <<"CAP_CHOWN", "CAP_SETUID">>

\* What capabilities.GetProcessEffective reports for the launching process
CurrentCaps == {<<>>, <<"CAP_CHOWN", "CAP_SETUID", "CAP_SYSLOG">>}

NoCapabilities ==
    [Permitted |-> <<>>, Effective |-> <<>>, Bounding |-> <<>>,
     Inheritable |-> <<>>, Ambient |-> <<>>]

\* lo.Without(list, drop...): the list without the elements named in drop
Without(list, drop) ==
    SelectSeq(list, LAMBDA c : \A i \in 1..Len(drop) : drop[i] # c)

\* capabilities.RemoveDuplicated: the first occurrence of each element
RECURSIVE RemoveDuplicated(_)
RemoveDuplicated(list) ==
    IF list = <<>> THEN <<>>
    ELSE LET front == RemoveDuplicated(SubSeq(list, 1, Len(list) - 1))
             last == list[Len(list)]
         IN  IF \E i \in 1..Len(front) : front[i] = last
             THEN front ELSE Append(front, last)

\* getBaseCapabilities in which keepPrivs is looked at before noPrivs.
getBaseCapabilitiesKeepFirst(l, current) ==
    IF l.KeepPrivs THEN current
    ELSE IF l.NoPrivs THEN <<>>
    ELSE DefaultCaps

\* Launcher.getBaseCapabilities (TestLauncher_getBaseCapabilities): nothing
\* under noPrivs, the effective set of the launching process under
\* keepPrivs, the OCI default list otherwise.
getBaseCapabilities(l, current) ==
    IF l.NoPrivs THEN <<>>
    ELSE IF l.KeepPrivs THEN current
    ELSE DefaultCaps

\* getProcessCapabilities in which noPrivs only empties the base set.
getProcessCapabilitiesNoPrivsBaseOnly(l, current, targetUID) ==
    LET caps == Without(RemoveDuplicated(getBaseCapabilities(l, current) \o l.AddCaps),
                        l.DropCaps)
        explicitCaps == Without(l.AddCaps, l.DropCaps)
    IN  IF targetUID = 0
        THEN [Permitted |-> caps, Effective |-> caps, Bounding |-> caps,
              Inheritable |-> <<>>, Ambient |-> <<>>]
        ELSE [Permitted |-> explicitCaps, Effective |-> explicitCaps,
              Bounding |-> caps,
              Inheritable |-> explicitCaps, Ambient |-> explicitCaps]

\* getProcessCapabilities in which the drop list is not applied to the
\* capabilities a non-root process is given.
getProcessCapabilitiesAddUndropped(l, current, targetUID) ==
    LET caps == Without(RemoveDuplicated(getBaseCapabilities(l, current) \o l.AddCaps),
                        l.DropCaps)
    IN  IF l.NoPrivs THEN NoCapabilities
        ELSE IF targetUID = 0
        THEN [Permitted |-> caps, Effective |-> caps, Bounding |-> caps,
              Inheritable |-> <<>>, Ambient |-> <<>>]
        ELSE [Permitted |-> l.AddCaps, Effective |-> l.AddCaps,
              Bounding |-> caps,
              Inheritable |-> l.AddCaps, Ambient |-> l.AddCaps]

\* getProcessCapabilities in which the add list does not reach the bounding
\* set of a non-root process.
getProcessCapabilitiesBoundingBase(l, current, targetUID) ==
    LET base == getBaseCapabilities(l, current)
        caps == Without(RemoveDuplicated(base \o l.AddCaps), l.DropCaps)
        explicitCaps == Without(l.AddCaps, l.DropCaps)
    IN  IF l.NoPrivs THEN NoCapabilities
        ELSE IF targetUID = 0
        THEN [Permitted |-> caps, Effective |-> caps, Bounding |-> caps,
              Inheritable |-> <<>>, Ambient |-> <<>>]
        ELSE [Permitted |-> explicitCaps, Effective |-> explicitCaps,
              Bounding |-> Without(base, l.DropCaps),
              Inheritable |-> explicitCaps, Ambient |-> explicitCaps]

\* Launcher.getProcessCapabilities(targetUID)
\* (TestLauncher_getProcessCapabilities): no capability at all under noPrivs;
\* otherwise (base + add) - drop is the bounding set, which root in the
\* container also holds as permitted and effective, while another user holds
\* the added capabilities that are not dropped, in all four other sets.
getProcessCapabilities(l, current, targetUID) ==
    LET caps == Without(RemoveDuplicated(getBaseCapabilities(l, current) \o l.AddCaps),
                        l.DropCaps)
        explicitCaps == Without(l.AddCaps, l.DropCaps)
    IN  IF l.NoPrivs THEN NoCapabilities
        ELSE IF targetUID = 0
        THEN [Permitted |-> caps, Effective |-> caps, Bounding |-> caps,
              Inheritable |-> <<>>, Ambient |-> <<>>]
        ELSE [Permitted |-> explicitCaps, Effective |-> explicitCaps,
              Bounding |-> caps,
              Inheritable |-> explicitCaps, Ambient |-> explicitCaps]

----------------------------------------------------------------------------
(* NewLauncher, checkOpts and parseHomeDir. An error is <<>> (nil) or a    *)
(* one-element sequence holding what the error wraps and what it names.    *)

ErrUnsupportedOption == "not supported by OCI launcher"

\* buildcfg.APPTAINER_CONF_FILE
APPTAINER_CONF_FILE == "/etc/apptainer/apptainer.conf"

\* A --no-mount value: a path (abs = TRUE, it starts with "/") or a keyword
NoMountValue(abs, name) == [abs |-> abs, name |-> name]

unsupportedNoMount == {"dev", "cwd", "bind-paths"}

\* The fields of launcher.Options that are set by being true or non-empty
OptionFlags ==
    {"Writable", "WritableTmpfs", "FuseMount", "NvCCLI", "CleanEnv", "NoEval",
     "Namespaces.Net", "NetworkArgs", "AllowSUID", "SecurityOpts", "NoUmask",
     "ShellPath", "Boot", "NoInit", "Contain", "ContainAll", "AppName",
     "KeyInfo", "SIFFUSE"}

\* lo after "lo := launcher.Options{}" and every opt(&lo) of a request
Options(req) ==
    [set |-> req.flags, Network |-> req.Network, ConfigFile |-> req.ConfigFile,
     NoMount |-> req.NoMount, HomeDir |-> req.HomeDir,
     CustomHome |-> req.CustomHome, Fakeroot |-> req.Fakeroot]

\* The checks of checkOpts that add to badOpt, in program order: the name
\* appended and whether the condition of its if statement holds
badOptChecks(lo) ==
    << [name |-> "Writable", bad |-> "Writable" \in lo.set],
       [name |-> "FuseMount", bad |-> "FuseMount" \in lo.set],
       [name |-> "NvCCLI", bad |-> "NvCCLI" \in lo.set],
       [name |-> "CleanEnv", bad |-> "CleanEnv" \in lo.set],
       [name |-> "NoEval", bad |-> "NoEval" \in lo.set],
       [name |-> "Network (except none)",
        bad |-> "Namespaces.Net" \in lo.set /\ lo.Network # "none"],
       [name |-> "NetworkArgs", bad |-> "NetworkArgs" \in lo.set],
       [name |-> "AllowSUID", bad |-> "AllowSUID" \in lo.set],
       [name |-> "SecurityOpts", bad |-> "SecurityOpts" \in lo.set],
       [name |-> "NoUmask", bad |-> "NoUmask" \in lo.set],
       [name |-> "ConfigFile",
        bad |-> lo.ConfigFile # "" /\ lo.ConfigFile # APPTAINER_CONF_FILE],
       [name |-> "ShellPath", bad |-> "ShellPath" \in lo.set],
       [name |-> "Boot", bad |-> "Boot" \in lo.set],
       [name |-> "NoInit", bad |-> "NoInit" \in lo.set],
       [name |-> "Contain", bad |-> "Contain" \in lo.set],
       [name |-> "ContainAll", bad |-> "ContainAll" \in lo.set],
       [name |-> "AppName", bad |-> "AppName" \in lo.set],
       [name |-> "KeyInfo", bad |-> "KeyInfo" \in lo.set],
       [name |-> "SIFFUSE", bad |-> "SIFFUSE" \in lo.set] >>

\* checkOpts that returns at the first unsupported option it meets.
checkOptsFirstOnly(lo) ==
    LET found == SelectSeq(badOptChecks(lo), LAMBDA c : c.bad)
        warned == SelectSeq(lo.NoMount,
                            LAMBDA nm : nm.abs \/ nm.name \in unsupportedNoMount)
    IN  [err |-> IF found # <<>>
                 THEN <<[wraps |-> ErrUnsupportedOption, names |-> <<found[1].name>>]>>
                 ELSE <<>>,
         warnings |-> warned]

\* checkOpts that treats an unsupported --no-mount value as an unsupported
\* option.
checkOptsNoMountBad(lo) ==
    LET found == SelectSeq(badOptChecks(lo), LAMBDA c : c.bad)
        warned == SelectSeq(lo.NoMount,
                            LAMBDA nm : nm.abs \/ nm.name \in unsupportedNoMount)
        badOpt == [i \in 1..Len(found) |-> found[i].name]
                  \o (IF warned # <<>> THEN <<"NoMount">> ELSE <<>>)
    IN  [err |-> IF Len(badOpt) > 0
                 THEN <<[wraps |-> ErrUnsupportedOption, names |-> badOpt]>>
                 ELSE <<>>,
         warnings |-> warned]

\* checkOpts(lo): badOpt collects the name of every unsupported option that
\* is set; an unsupported --no-mount value is only warned about. Returns the
\* error (naming strings.Join(badOpt, ",")) and the warnings logged.
checkOpts(lo) ==
    LET found == SelectSeq(badOptChecks(lo), LAMBDA c : c.bad)
        warned == SelectSeq(lo.NoMount,
                            LAMBDA nm : nm.abs \/ nm.name \in unsupportedNoMount)
        badOpt == [i \in 1..Len(found) |-> found[i].name]
    IN  [err |-> IF Len(badOpt) > 0
                 THEN <<[wraps |-> ErrUnsupportedOption, names |-> badOpt]>>
                 ELSE <<>>,
         warnings |-> warned]

\* parseHomeDir(homedir, custom, fakeroot): homedir is given as its parts
\* between ':' (strings.Split), pw as rootless.GetUser returned it (<<>> on
\* error). Returns the error flag, the host source and the container
\* destination of $HOME.
parseHomeDir(homedir, custom, fakeroot, pw) ==
    IF pw = <<>> THEN [err |-> TRUE, src |-> "", dest |-> ""]
    ELSE
      LET dest0 == IF fakeroot THEN "/root" ELSE Head(pw).HomeDir
      IN  IF ~custom THEN [err |-> FALSE, src |-> "", dest |-> dest0]
          ELSE IF Len(homedir) < 1 \/ Len(homedir) > 2
               THEN [err |-> TRUE, src |-> "", dest |-> ""]
          ELSE IF Len(homedir) > 1
               THEN [err |-> FALSE, src |-> homedir[1], dest |-> homedir[2]]
          ELSE [err |-> FALSE, src |-> "", dest |-> homedir[1]]

----------------------------------------------------------------------------
(* The process environment: Bundle.setProcessEnv of the native bundle.     *)
(* A string is the sequence of the pieces it is made of, ":" being a piece *)
(* of its own, so that concatenation is \o and a substring is a run of     *)
(* pieces. An environment entry is [k, eq, v]: the text before the first   *)
(* "=", whether there is an "=", and the text after it.                    *)

\* const apptainerLibs = "/.singularity.d/libs"
apptainerLibs == <<"/.singularity.d/libs">>

EnvEntry(k, v) == [k |-> k, eq |-> TRUE, v |-> v]

\* An entry without "=" (strings.SplitN returns one element)
BareEntry(k) == [k |-> k, eq |-> FALSE, v |-> <<>>]

\* strings.Contains(s, substr)
Contains(s, substr) ==
    \E i \in 1..(Len(s) - Len(substr) + 1) : SubSeq(s, i, i + Len(substr) - 1) = substr

\* strings.TrimPrefix(s, prefix) for a prefix of one piece
TrimPrefix(s, prefix) ==
    IF s # <<>> /\ Head(s) = prefix THEN Tail(s) ELSE s

\* The value the scan of the image Env leaves for key: that of its last
\* KEY=value entry, "" when there is none
ImageValue(imageEnv, key) ==
    LET at == {i \in 1..Len(imageEnv) : imageEnv[i].eq /\ imageEnv[i].k = key}
    IN  IF at = {} THEN <<>>
        ELSE imageEnv[CHOOSE i \in at : \A j \in at : j <= i].v

\* g.SetProcessEnv(k, v): the entry of k takes the new value, a new entry
\* is appended when k has none
SetProcessEnv(processEnv, k, v) ==
    LET at == {i \in 1..Len(processEnv) : processEnv[i].k = k}
    IN  IF at = {} THEN Append(processEnv, EnvEntry(k, v))
        ELSE [processEnv EXCEPT ![CHOOSE i \in at : \A j \in at : j <= i] = EnvEntry(k, v)]

\* for k, v := range b.env { switch k ... }: env lists the map in the order
\* the range statement visits it; st holds path, appendPath, prependPath,
\* ldLibraryPath and g.Config.Process.Env
RECURSIVE applyBundleEnv(_, _)
applyBundleEnv(st, env) ==
    IF env = <<>> THEN st
    ELSE LET e == Head(env)
             next == CASE e.k = "PATH" -> [st EXCEPT !.path = e.v]
                       [] e.k = "APPEND_PATH" -> [st EXCEPT !.appendPath = e.v]
                       [] e.k = "PREPEND_PATH" -> [st EXCEPT !.prependPath = e.v]
                       [] e.k = "LD_LIBRARY_PATH" -> [st EXCEPT !.ldLibraryPath = e.v]
                       [] OTHER -> [st EXCEPT !.Env = SetProcessEnv(st.Env, e.k, e.v)]
         IN  applyBundleEnv(next, Tail(env))

\* Bundle.setProcessEnv: the image Env, then the env of the bundle on top
\* of it, PATH with APPEND_PATH and PREPEND_PATH, and LD_LIBRARY_PATH with
\* the helper-library directory. Returns g.Config.Process.Env.
setProcessEnv(imageEnv, env) ==
    LET st == applyBundleEnv([path |-> ImageValue(imageEnv, "PATH"),
                              appendPath |-> <<>>, prependPath |-> <<>>,
                              ldLibraryPath |-> ImageValue(imageEnv, "LD_LIBRARY_PATH"),
                              Env |-> imageEnv], env)
        path1 == IF st.appendPath # <<>>
                 THEN st.path \o <<":">> \o st.appendPath
                 ELSE st.path
        path2 == IF st.prependPath # <<>>
                 THEN st.prependPath \o <<":">> \o path1
                 ELSE path1
        env1 == IF path2 # <<>> THEN SetProcessEnv(st.Env, "PATH", path2) ELSE st.Env
        ld == IF ~Contains(st.ldLibraryPath, apptainerLibs)
              THEN TrimPrefix(st.ldLibraryPath \o <<":">> \o apptainerLibs, ":")
              ELSE st.ldLibraryPath
    IN  SetProcessEnv(env1, "LD_LIBRARY_PATH", ld)

----------------------------------------------------------------------------
(* Bind mounts: Launcher.addBindMounts and addBindMount (mounts_linux.go). *)
(* A path is [abs, segs]: whether it starts with "/" and its elements.     *)

Path(abs, segs) == [abs |-> abs, segs |-> segs]

\* The working directory of the launcher
Cwd == Path(TRUE, <<"cwd">>)

\* The paths os.Stat finds on the host
HostPaths ==
    {Path(TRUE, <<"tmp">>), Path(TRUE, <<"data">>), Path(TRUE, <<"myimage.sif">>),
     Path(TRUE, <<"cwd", "rel">>)}

\* A bind.BindPath: id and imageSrc are the values of its "id" and "img-src"
\* options, "" when not given (b.ID(), b.ImageSrc()), ro is b.Readonly()
BindPath(src, dst, ro, id, imageSrc) ==
    [Source |-> src, Destination |-> dst, ro |-> ro, id |-> id, imageSrc |-> imageSrc]

\* A --bind or --mount request: one that bind.ParseBindPath or
\* bind.ParseMountString turns into a BindPath, or one it rejects
Request(b) == [ok |-> TRUE, b |-> b]

Malformed ==
    [ok |-> FALSE, b |-> BindPath(Path(FALSE, <<>>), Path(FALSE, <<>>), FALSE, "", "")]

BindMount(src, dst, opts) ==
    [Source |-> src, Destination |-> dst, Type |-> "none", Options |-> opts]

\* filepath.Abs(path): cwd is <<>> when the working directory cannot be
\* determined
filepathAbs(path, cwd) ==
    IF path.abs THEN [err |-> FALSE, path |-> path]
    ELSE IF cwd = <<>> THEN [err |-> TRUE, path |-> path]
    ELSE [err |-> FALSE, path |-> Path(TRUE, Head(cwd).segs \o path.segs)]

\* addBindMount(mounts, b): returns the error (<<>> when nil) and the mount
\* list as the call leaves it.
addBindMount(mounts, b, cwd) ==
    LET opts == <<"rbind", "nosuid", "nodev">> \o (IF b.ro THEN <<"ro">> ELSE <<>>)
        absSource == filepathAbs(b.Source, cwd)
    IN  IF b.id # "" \/ b.imageSrc # ""
        THEN [err |-> <<"image binds are not yet supported by the OCI runtime">>,
              mounts |-> mounts]
        ELSE IF absSource.err
        THEN [err |-> <<"cannot determine absolute path">>, mounts |-> mounts]
        ELSE IF absSource.path \notin HostPaths
        THEN [err |-> <<"cannot stat bind source">>, mounts |-> mounts]
        ELSE [err |-> <<>>,
              mounts |-> Append(mounts, BindMount(absSource.path, b.Destination, opts))]

\* bind.ParseBindPath(paths) and, one --mount at a time, bind.ParseMountString:
\* the BindPaths of the requests, or an error when one is rejected
ParseRequests(requests) ==
    IF \E i \in 1..Len(requests) : ~requests[i].ok
    THEN [err |-> TRUE, binds |-> <<>>]
    ELSE [err |-> FALSE, binds |-> [i \in 1..Len(requests) |-> requests[i].b]]

\* for _, b := range binds { ... } of addBindMounts
RECURSIVE addEachBind(_, _, _, _)
addEachBind(UserBindControl, mounts, binds, cwd) ==
    IF binds = <<>> THEN [err |-> <<>>, mounts |-> mounts, warned |-> FALSE]
    ELSE IF ~UserBindControl THEN [err |-> <<>>, mounts |-> mounts, warned |-> TRUE]
    ELSE LET r == addBindMount(mounts, Head(binds), cwd)
         IN  IF r.err # <<>>
             THEN [err |-> <<"while adding mount">> \o r.err, mounts |-> r.mounts,
                   warned |-> FALSE]
             ELSE addEachBind(UserBindControl, r.mounts, Tail(binds), cwd)

\* addBindMounts that looks at user bind control only after the first bind
\* is added.
addBindMountsControlLate(l, UserBindControl, mounts, cwd) ==
    LET binds == ParseRequests(l.BindPaths)
        more == ParseRequests(l.Mounts)
        all == binds.binds \o more.binds
    IN  IF binds.err
        THEN [err |-> <<"while parsing bind path">>, mounts |-> mounts, warned |-> FALSE]
        ELSE IF more.err
        THEN [err |-> <<"while parsing mount">>, mounts |-> mounts, warned |-> FALSE]
        ELSE IF all = <<>> THEN [err |-> <<>>, mounts |-> mounts, warned |-> FALSE]
        ELSE LET r == addBindMount(mounts, Head(all), cwd)
             IN  IF r.err # <<>>
                 THEN [err |-> <<"while adding mount">> \o r.err, mounts |-> r.mounts,
                       warned |-> FALSE]
                 ELSE addEachBind(UserBindControl, r.mounts, Tail(all), cwd)

\* Launcher.addBindMounts(mounts): the binds of --bind, then those of each
\* --mount, are parsed first; then each is added in turn, unless user bind
\* control is disabled, in which case the first bind ends the call with a
\* warning. Returns the error, the mount list as the call leaves it, and
\* whether the warning was logged.
addBindMounts(l, UserBindControl, mounts, cwd) ==
    LET binds == ParseRequests(l.BindPaths)
        more == ParseRequests(l.Mounts)
    IN  IF binds.err
        THEN [err |-> <<"while parsing bind path">>, mounts |-> mounts, warned |-> FALSE]
        ELSE IF more.err
        THEN [err |-> <<"while parsing mount">>, mounts |-> mounts, warned |-> FALSE]
        ELSE addEachBind(UserBindControl, mounts, binds.binds \o more.binds, cwd)

----------------------------------------------------------------------------
(* The mount list: Launcher.getMounts (mounts_linux.go) and the /etc files *)
(* Launcher.prepareEtc adds to it (launcher_linux.go).                     *)

Mount(dst, type, src, opts) ==
    [Source |-> src, Destination |-> dst, Type |-> type, Options |-> opts]

\* filepath.Join(p, elems...)
filepathJoin(p, elems) == Path(p.abs, p.segs \o elems)

\* A name that is not a path ("tmpfs", "proc") as the Source of a mount
Device(name) == Path(FALSE, <<name>>)

\* fmt.Sprintf("size=%dm", l.apptainerConf.SessiondirMaxSize)
SizeOption == "size=SessiondirMaxSize"

\* addProcMount
addProcMount(mounts) ==
    Append(mounts, Mount(Path(TRUE, <<"proc">>), "proc", Device("proc"), <<>>))

\* addSysMount: sysfs for host root, a read-only rbind of /sys otherwise
addSysMount(mounts, uid) ==
    IF uid = 0
    THEN Append(mounts, Mount(Path(TRUE, <<"sys">>), "sysfs", Device("sysfs"),
                              <<"nosuid", "noexec", "nodev", "ro">>))
    ELSE Append(mounts, Mount(Path(TRUE, <<"sys">>), "none", Path(TRUE, <<"sys">>),
                              <<"rbind", "nosuid", "noexec", "nodev", "ro">>))

\* addDevMounts: tty is the group user.GetGrNam("tty") finds (<<>> on error)
addDevMounts(mounts, uid, tty) ==
    LET ptsOptions == <<"nosuid", "noexec", "newinstance", "ptmxmode=0666", "mode=0620">>
    IN  IF uid = 0 /\ tty = <<>>
        THEN [err |-> <<"while identifying tty gid">>, mounts |-> mounts]
        ELSE [err |-> <<>>,
              mounts |-> mounts \o
                <<Mount(Path(TRUE, <<"dev">>), "tmpfs", Device("tmpfs"),
                        <<"nosuid", "strictatime", "mode=755", SizeOption>>),
                  Mount(Path(TRUE, <<"dev", "pts">>), "devpts", Device("devpts"),
                        IF uid = 0 THEN Append(ptsOptions, "gid=tty") ELSE ptsOptions),
                  Mount(Path(TRUE, <<"dev", "shm">>), "tmpfs", Device("shm"),
                        <<"nosuid", "noexec", "nodev", "mode=1777", SizeOption>>),
                  Mount(Path(TRUE, <<"dev", "mqueue">>), "mqueue", Device("mqueue"),
                        <<"nosuid", "noexec", "nodev">>)>>]

\* addTmpMounts
addTmpMounts(mounts) ==
    mounts \o
      <<Mount(Path(TRUE, <<"tmp">>), "tmpfs", Device("tmpfs"),
              <<"nosuid", "relatime", "mode=777", SizeOption>>),
        Mount(Path(TRUE, <<"var", "tmp">>), "tmpfs", Device("tmpfs"),
              <<"nosuid", "relatime", "mode=777", SizeOption>>)>>

HomeOptions == <<"nosuid", "relatime", "mode=755", SizeOption>>

\* addHomeMount: pw is what user.CurrentOriginal returns (<<>> on error)
addHomeMount(l, mounts, pw) ==
    IF l.cfg.Fakeroot
    THEN [err |-> <<>>,
          mounts |-> Append(mounts, Mount(Path(TRUE, <<"root">>), "tmpfs",
                                          Device("tmpfs"), HomeOptions))]
    ELSE IF pw = <<>> THEN [err |-> <<"user">>, mounts |-> mounts]
    ELSE [err |-> <<>>,
          mounts |-> Append(mounts, Mount(Head(pw).Dir, "tmpfs", Device("tmpfs"),
                                          HomeOptions \o <<"uid=pw.UID", "gid=pw.GID">>))]

\* getMounts that adds the binds before /tmp, /var/tmp and the home
getMountsBindsFirst(l, h) ==
    LET dev == addDevMounts(addSysMount(addProcMount(<<>>), h.uid), h.uid, h.tty)
        binds == addBindMounts(l.cfg, l.apptainerConf.UserBindControl, dev.mounts, h.cwd)
        home == addHomeMount(l, addTmpMounts(binds.mounts), h.pw)
    IN  IF dev.err # <<>>
        THEN [err |-> <<"while configuring devpts mount">> \o dev.err, mounts |-> <<>>]
        ELSE IF binds.err # <<>>
        THEN [err |-> <<"while configuring bind mount(s)">> \o binds.err, mounts |-> <<>>]
        ELSE IF home.err # <<>>
        THEN [err |-> <<"while configuring home mount">> \o home.err, mounts |-> <<>>]
        ELSE [err |-> <<>>, mounts |-> home.mounts]

\* Launcher.getMounts: h is the host as the calls see it (uid, tty group,
\* passwd entry, working directory). Returns (nil, err) or (*mounts, nil).
getMounts(l, h) ==
    LET dev == addDevMounts(addSysMount(addProcMount(<<>>), h.uid), h.uid, h.tty)
        home == addHomeMount(l, addTmpMounts(dev.mounts), h.pw)
        binds == addBindMounts(l.cfg, l.apptainerConf.UserBindControl, home.mounts, h.cwd)
    IN  IF dev.err # <<>>
        THEN [err |-> <<"while configuring devpts mount">> \o dev.err, mounts |-> <<>>]
        ELSE IF home.err # <<>>
        THEN [err |-> <<"while configuring home mount">> \o home.err, mounts |-> <<>>]
        ELSE IF binds.err # <<>>
        THEN [err |-> <<"while configuring bind mount(s)">> \o binds.err, mounts |-> <<>>]
        ELSE [err |-> <<>>, mounts |-> binds.mounts]

\* b.Path() of the bundle the launch created
BundlePath == Path(TRUE, <<"session", "oci-bundle">>)

\* tools.RootFs(bundlePath).Path()
RootFs(bundlePath) == filepathJoin(bundlePath, <<"rootfs">>)

\* What net.ParseIP accepts
ValidIPs == {"10.0.0.1", "10.0.0.2"}

\* Result of one prepare function: the mount it returns (<<>> for nil), the
\* error, and the files it wrote.
Prepared(mount, err, wrote) == [mount |-> mount, err |-> err, wrote |-> wrote]

EtcBind(source, name) ==
    Mount(Path(TRUE, <<"etc", name>>), "none", source, <<"bind">>)

\* preparePasswd that renders the file into the rootfs in place
preparePasswdInRootfs(l, bundlePath, fs) ==
    LET rootfsPasswd == filepathJoin(RootFs(bundlePath), <<"etc", "passwd">>)
    IN  IF ~l.apptainerConf.ConfigPasswd THEN Prepared(<<>>, <<>>, <<>>)
        ELSE IF rootfsPasswd \notin fs.files THEN Prepared(<<>>, <<>>, <<>>)
        ELSE IF fs.fail = "writePasswd"
        THEN Prepared(<<>>, <<"while writing passwd file">>, <<>>)
        ELSE Prepared(<<>>, <<>>, <<rootfsPasswd>>)

\* preparePasswd(bundlePath, uid): fs.files are the files that exist, fs.fail
\* the system call that fails
preparePasswd(l, bundlePath, fs) ==
    LET rootfsPasswd == filepathJoin(RootFs(bundlePath), <<"etc", "passwd">>)
        containerPasswd == filepathJoin(bundlePath, <<"etc", "passwd">>)
    IN  IF ~l.apptainerConf.ConfigPasswd THEN Prepared(<<>>, <<>>, <<>>)
        ELSE IF rootfsPasswd \notin fs.files THEN Prepared(<<>>, <<>>, <<>>)
        ELSE IF fs.fail = "writePasswd"
        THEN Prepared(<<>>, <<"while writing passwd file">>, <<>>)
        ELSE Prepared(<<EtcBind(containerPasswd, "passwd")>>, <<>>, <<containerPasswd>>)

\* prepareGroup(bundlePath, uid, gid)
prepareGroup(l, bundlePath, fs) ==
    LET rootfsGroup == filepathJoin(RootFs(bundlePath), <<"etc", "group">>)
        containerGroup == filepathJoin(bundlePath, <<"etc", "group">>)
    IN  IF ~l.apptainerConf.ConfigGroup THEN Prepared(<<>>, <<>>, <<>>)
        ELSE IF rootfsGroup \notin fs.files THEN Prepared(<<>>, <<>>, <<>>)
        ELSE IF fs.fail = "writeGroup"
        THEN Prepared(<<>>, <<"while writing passwd file">>, <<>>)
        ELSE Prepared(<<EtcBind(containerGroup, "group")>>, <<>>, <<containerGroup>>)

\* prepareResolvConf(bundlePath): cfg.DNS is the list of the addresses
\* between its commas
prepareResolvConf(l, bundlePath, fs) ==
    LET hostResolvConfPath == Path(TRUE, <<"etc", "resolv.conf">>)
        containerResolvConfPath == filepathJoin(bundlePath, <<"etc", "resolv.conf">>)
    IN  IF ~l.apptainerConf.ConfigResolvConf THEN Prepared(<<>>, <<>>, <<>>)
        ELSE IF \E i \in 1..Len(l.cfg.DNS) : l.cfg.DNS[i] \notin ValidIPs
        THEN Prepared(<<>>, <<"DNS nameserver is not a valid IP address">>, <<>>)
        ELSE IF l.cfg.DNS = <<>> /\ hostResolvConfPath \notin fs.files
        THEN Prepared(<<>>, <<"could not read host's resolv.conf file">>, <<>>)
        ELSE IF fs.fail = "writeResolvConf"
        THEN Prepared(<<>>, <<"while writing container's resolv.conf file">>, <<>>)
        ELSE Prepared(<<EtcBind(containerResolvConfPath, "resolv.conf")>>, <<>>,
                      <<containerResolvConfPath>>)

\* prepareEtc that returns for a container user before anything is prepared
prepareEtcUserFirst(l, bundlePath, mounts, containerUser, fs) ==
    LET etc == filepathJoin(bundlePath, <<"etc">>)
        resolv == prepareResolvConf(l, bundlePath, fs)
        passwd == preparePasswd(l, bundlePath, fs)
        group == prepareGroup(l, bundlePath, fs)
    IN  IF fs.fail = "mkdir"
        THEN [err |-> <<"mkdir">>, mounts |-> mounts, wrote |-> <<>>]
        ELSE IF containerUser
        THEN [err |-> IF l.cfg.CustomHome THEN <<"a custom --home is not currently supported">>
                      ELSE <<>>,
              mounts |-> mounts, wrote |-> <<etc>>]
        ELSE IF resolv.err # <<>>
        THEN [err |-> resolv.err, mounts |-> mounts, wrote |-> <<etc>>]
        ELSE IF passwd.err # <<>>
        THEN [err |-> passwd.err, mounts |-> mounts \o resolv.mount,
              wrote |-> <<etc>> \o resolv.wrote]
        ELSE IF group.err # <<>>
        THEN [err |-> group.err, mounts |-> mounts \o resolv.mount \o passwd.mount,
              wrote |-> <<etc>> \o resolv.wrote \o passwd.wrote]
        ELSE [err |-> <<>>,
              mounts |-> mounts \o resolv.mount \o passwd.mount \o group.mount,
              wrote |-> <<etc>> \o resolv.wrote \o passwd.wrote \o group.wrote]

\* prepareEtc(b, spec, containerUser): returns the error, spec.Mounts as the
\* call leaves it, and the directory and files it created, in order.
prepareEtc(l, bundlePath, mounts, containerUser, fs) ==
    LET etc == filepathJoin(bundlePath, <<"etc">>)
        resolv == prepareResolvConf(l, bundlePath, fs)
        passwd == preparePasswd(l, bundlePath, fs)
        group == prepareGroup(l, bundlePath, fs)
    IN  IF fs.fail = "mkdir"
        THEN [err |-> <<"mkdir">>, mounts |-> mounts, wrote |-> <<>>]
        ELSE IF resolv.err # <<>>
        THEN [err |-> resolv.err, mounts |-> mounts, wrote |-> <<etc>>]
        ELSE IF containerUser
        THEN [err |-> IF l.cfg.CustomHome THEN <<"a custom --home is not currently supported">>
                      ELSE <<>>,
              mounts |-> mounts \o resolv.mount, wrote |-> <<etc>> \o resolv.wrote]
        ELSE IF passwd.err # <<>>
        THEN [err |-> passwd.err, mounts |-> mounts \o resolv.mount,
              wrote |-> <<etc>> \o resolv.wrote]
        ELSE IF group.err # <<>>
        THEN [err |-> group.err, mounts |-> mounts \o resolv.mount \o passwd.mount,
              wrote |-> <<etc>> \o resolv.wrote \o passwd.wrote]
        ELSE [err |-> <<>>,
              mounts |-> mounts \o resolv.mount \o passwd.mount \o group.mount,
              wrote |-> <<etc>> \o resolv.wrote \o passwd.wrote \o group.wrote]


----------------------------------------------------------------------------
(* Launcher.Exec as a state machine: one action per step of the function   *)
(* that calls a collaborator; each step takes the error branch or goes on. *)

\* Largest exit status the modelled container ends with
MaxExitCode == 2

NoRun == [kind |-> "none", code |-> 0]

\* What RunWrapped returns: nil, an *exec.ExitError carrying the exit code of
\* the runtime (-1 when it was killed by a signal), or another error.
RunResults ==
    {[kind |-> "nil", code |-> 0], [kind |-> "other", code |-> 0]}
    \cup {[kind |-> "exit", code |-> c] : c \in {-1} \cup (1..MaxExitCode)}

Hosts ==
    {[uid |-> i.uid, gid |-> i.gid, subuid |-> su, subgid |-> sg] :
        i \in HostIDs, su \in SubRanges, sg \in SubRanges}

Images ==
    {[User |-> u, Entrypoint |-> e, Cmd |-> c] :
        u \in ImageUsers, e \in Entrypoints, c \in Cmds}

\* What --userns asks for
NamespaceRequests == {NoNamespaces, [NoNamespaces EXCEPT !.User = TRUE]}

Running == [kind |-> "running", err |-> FALSE, code |-> 0]

Init ==
    /\ pc = "start"
    /\ cfg \in [Fakeroot : BOOLEAN, CustomHome : BOOLEAN, Namespaces : NamespaceRequests]
    /\ params \in [process : Processes, args : ArgLists]
    /\ host \in Hosts
    /\ imageSpec = <<>>
    /\ spec = <<>>
    /\ config = <<>>
    /\ bundleDir = FALSE
    /\ rootfs = FALSE
    /\ ociTmp = "none"
    /\ sessionTmpfs = FALSE
    /\ deferArmed = FALSE
    /\ runErr = NoRun
    /\ result = Running
    /\ log = <<>>
    /\ fnIn = <<>>
    /\ fnOut = <<>>

\* "return err" (err = TRUE) or "return nil" from Exec: the deferred function
\* registered after MkdirTemp removes the bundle directory with all it holds.
Return(err) ==
    /\ pc' = "done"
    /\ result' = [kind |-> "returned", err |-> err, code |-> 0]
    /\ IF deferArmed
       THEN bundleDir' = FALSE /\ rootfs' = FALSE /\ config' = <<>>
       ELSE UNCHANGED <<bundleDir, rootfs, config>>

\* instanceName, SysContext and normalizeImageRef checks
ExecPreflight ==
    /\ pc = "start"
    /\ \E ok \in BOOLEAN :
         IF ok
         THEN pc' = "mount" /\ UNCHANGED <<result, bundleDir, rootfs, config>>
         ELSE Return(TRUE)
    /\ UNCHANGED <<cfg, params, host, imageSpec, spec, ociTmp, sessionTmpfs,
                   deferArmed, runErr, log, fnIn, fnOut>>

MountSessionTmpfs ==
    /\ pc = "mount"
    /\ \E ok \in BOOLEAN :
         IF ok
         THEN /\ pc' = "mkdir"
              /\ sessionTmpfs' = TRUE
              /\ UNCHANGED <<result, bundleDir, rootfs, config>>
         ELSE Return(TRUE) /\ UNCHANGED sessionTmpfs
    /\ UNCHANGED <<cfg, params, host, imageSpec, spec, ociTmp,
                   deferArmed, runErr, log, fnIn, fnOut>>

\* os.MkdirTemp of the bundle directory; on failure Exec returns nil.
MkdirTemp ==
    /\ pc = "mkdir"
    /\ \E ok \in BOOLEAN :
         IF ok
         THEN /\ pc' = "cache"
              /\ bundleDir' = TRUE
              /\ deferArmed' = TRUE
              /\ UNCHANGED <<result, rootfs, config>>
         ELSE Return(FALSE) /\ UNCHANGED deferArmed
    /\ UNCHANGED <<cfg, params, host, imageSpec, spec, ociTmp, sessionTmpfs,
                   runErr, log, fnIn, fnOut>>

\* cache.New unless the cache is disabled
CacheNew ==
    /\ pc = "cache"
    /\ \E disabled \in BOOLEAN, ok \in BOOLEAN :
         IF disabled \/ ok
         THEN pc' = "createSpec" /\ UNCHANGED <<result, bundleDir, rootfs, config>>
         ELSE Return(TRUE)
    /\ UNCHANGED <<cfg, params, host, imageSpec, spec, ociTmp, sessionTmpfs,
                   deferArmed, runErr, log, fnIn, fnOut>>

CreateSpec ==
    /\ pc = "createSpec"
    /\ \E ok \in BOOLEAN :
         IF ok
         THEN /\ pc' = "new"
              /\ spec' = <<createSpec(cfg)>>
              /\ log' = Append(log, "createSpec")
              /\ UNCHANGED <<result, bundleDir, rootfs, config>>
         ELSE Return(TRUE) /\ UNCHANGED <<spec, log>>
    /\ UNCHANGED <<cfg, params, host, imageSpec, ociTmp, sessionTmpfs,
                   deferArmed, runErr, fnIn, fnOut>>

\* native.New / ocisif.New
BundleNew ==
    /\ pc = "new"
    /\ \E ok \in BOOLEAN :
         IF ok
         THEN pc' = "create" /\ UNCHANGED <<result, bundleDir, rootfs, config>>
         ELSE Return(TRUE)
    /\ UNCHANGED <<cfg, params, host, imageSpec, spec, ociTmp, sessionTmpfs,
                   deferArmed, runErr, log, fnIn, fnOut>>

\* Bundle.Create, first part: GenerateBundleConfig, then os.MkdirTemp of the
\* temporary OCI layout, whose removal Create defers.
BundleCreateBegin ==
    /\ pc = "create"
    /\ \E fail \in {"none", "generate", "mkdirTemp"} :
         IF fail = "none"
         THEN /\ pc' = "fetch"
              /\ ociTmp' = "present"
              /\ UNCHANGED <<result, bundleDir, rootfs, config>>
         ELSE Return(TRUE) /\ UNCHANGED ociTmp
    /\ UNCHANGED <<cfg, params, host, imageSpec, spec, sessionTmpfs,
                   deferArmed, runErr, log, fnIn, fnOut>>

\* Bundle.fetchImage: copies the image into the temporary layout and reads
\* the image config; fails on a transport error or a cancelled context.
FetchImage ==
    /\ pc = "fetch"
    /\ \/ \E img \in Images :
            /\ imageSpec' = <<img>>
            /\ pc' = "extract"
            /\ UNCHANGED <<result, bundleDir, rootfs, config, ociTmp>>
       \/ /\ ociTmp' = "removed"
          /\ Return(TRUE)
          /\ UNCHANGED imageSpec
    /\ UNCHANGED <<cfg, params, host, spec, sessionTmpfs,
                   deferArmed, runErr, log, fnIn, fnOut>>

\* Bundle.extractImage: reads the manifest of the temporary layout and
\* unpacks the layers into the rootfs of the bundle. The error of
\* json.Unmarshal on the manifest is dropped: the unpacking goes on.
ExtractImage ==
    /\ pc = "extract"
    /\ \E fail \in {"none", "OpenLayout", "GetManifest", "mediaType", "Unmarshal",
                    "UnpackRootfs"} :
         IF fail \in {"none", "Unmarshal"}
         THEN /\ pc' = "createEnd"
              /\ rootfs' = TRUE
              /\ UNCHANGED <<result, bundleDir, config, ociTmp>>
         ELSE ociTmp' = "removed" /\ Return(TRUE)
    /\ UNCHANGED <<cfg, params, host, imageSpec, spec, sessionTmpfs,
                   deferArmed, runErr, log, fnIn, fnOut>>

\* Bundle.Create, last part: removes the temporary layout, sets the process
\* args, env and user on the generator and writes config.json. The launcher
\* creates the bundle without OptProcessArgs, so process and args are empty.
BundleCreateFinish ==
    /\ pc = "createEnd"
    /\ ociTmp' = "removed"
    /\ \E fail \in {"none", "removeAll", "writeConfig"} :
         LET r == createConfig(Head(spec), "", <<>>, Head(imageSpec), host) IN
         IF fail = "none" /\ ~r.err
         THEN /\ pc' = "finalize"
              /\ config' = <<r.g>>
              /\ log' = Append(log, "Create")
              /\ UNCHANGED <<result, bundleDir, rootfs>>
         ELSE Return(TRUE) /\ UNCHANGED log
    /\ UNCHANGED <<cfg, params, host, imageSpec, spec, sessionTmpfs,
                   deferArmed, runErr, fnIn, fnOut>>

\* Launcher.finalizeSpec up to prepareEtc: sets the ID mappings, the user
\* namespace and spec.Process from the image config.
FinalizeSpec ==
    /\ pc = "finalize"
    /\ \E fail \in FinalizeFailures :
         LET r == finalizeSpec(cfg, host, Head(spec), imageSpec,
                               params.process, params.args, fail)
         IN  /\ spec' = <<r.spec>>
             /\ IF r.err
                THEN Return(TRUE) /\ UNCHANGED log
                ELSE /\ pc' = "update"
                     /\ log' = Append(log, "finalizeSpec")
                     /\ UNCHANGED <<result, bundleDir, rootfs, config>>
    /\ UNCHANGED <<cfg, params, host, imageSpec, ociTmp, sessionTmpfs,
                   deferArmed, runErr, fnIn, fnOut>>

\* b.Update at the end of finalizeSpec: persists the finalized spec.
BundleUpdate ==
    /\ pc = "update"
    /\ \E ok \in BOOLEAN :
         IF ok
         THEN /\ pc' = "genid"
              /\ config' = spec
              /\ log' = Append(log, "Update")
              /\ UNCHANGED <<result, bundleDir, rootfs>>
         ELSE Return(TRUE) /\ UNCHANGED log
    /\ UNCHANGED <<cfg, params, host, imageSpec, spec, ociTmp, sessionTmpfs,
                   deferArmed, runErr, fnIn, fnOut>>

\* uuid.NewRandom
GenerateID ==
    /\ pc = "genid"
    /\ \E ok \in BOOLEAN :
         IF ok
         THEN pc' = "run" /\ UNCHANGED <<result, bundleDir, rootfs, config>>
         ELSE Return(TRUE)
    /\ UNCHANGED <<cfg, params, host, imageSpec, spec, ociTmp, sessionTmpfs,
                   deferArmed, runErr, log, fnIn, fnOut>>

\* RunWrapped: the low-level runtime runs the bundle.
RunWrapped ==
    /\ pc = "run"
    /\ \E e \in RunResults : runErr' = e
    /\ log' = Append(log, "RunWrapped")
    /\ pc' = "delete"
    /\ UNCHANGED <<cfg, params, host, imageSpec, spec, config, bundleDir, rootfs,
                   ociTmp, sessionTmpfs, deferArmed, result, fnIn, fnOut>>

\* b.Delete: removes the bundle, or returns an error and leaves it, which
\* Exec only logs.
BundleDelete ==
    /\ pc = "delete"
    /\ \E ok \in BOOLEAN :
         IF ok
         THEN bundleDir' = FALSE /\ rootfs' = FALSE /\ config' = <<>>
         ELSE UNCHANGED <<bundleDir, rootfs, config>>
    /\ pc' = "unmount"
    /\ UNCHANGED <<cfg, params, host, imageSpec, spec, ociTmp, sessionTmpfs,
                   deferArmed, runErr, result, log, fnIn, fnOut>>

\* l.unmountSessionTmpfs: a failure is only logged.
UnmountSessionTmpfs ==
    /\ pc = "unmount"
    /\ \E ok \in BOOLEAN : sessionTmpfs' = IF ok THEN FALSE ELSE sessionTmpfs
    /\ pc' = "finish"
    /\ UNCHANGED <<cfg, params, host, imageSpec, spec, config, bundleDir, rootfs,
                   ociTmp, deferArmed, runErr, result, log, fnIn, fnOut>>

\* The end of Exec: os.Exit with the exit code of an *exec.ExitError, which
\* ends the process without running deferred functions; otherwise return err.
ExecFinish ==
    /\ pc = "finish"
    /\ IF runErr.kind = "exit"
       THEN /\ pc' = "done"
            /\ result' = [kind |-> "exited", err |-> FALSE, code |-> runErr.code]
            /\ UNCHANGED <<bundleDir, rootfs, config>>
       ELSE Return(runErr.kind = "other")
    /\ UNCHANGED <<cfg, params, host, imageSpec, spec, ociTmp, sessionTmpfs,
                   deferArmed, runErr, log, fnIn, fnOut>>

Next ==
    \/ ExecPreflight
    \/ MountSessionTmpfs
    \/ MkdirTemp
    \/ CacheNew
    \/ CreateSpec
    \/ BundleNew
    \/ BundleCreateBegin
    \/ FetchImage
    \/ ExtractImage
    \/ BundleCreateFinish
    \/ FinalizeSpec
    \/ BundleUpdate
    \/ GenerateID
    \/ RunWrapped
    \/ BundleDelete
    \/ UnmountSessionTmpfs
    \/ ExecFinish

Spec == Init /\ [][Next]_vars

----------------------------------------------------------------------------
(* Function harnesses: the inputs are drawn in the initial state and one   *)
(* action applies the function. The launch itself stays idle.              *)

Idle ==
    /\ pc = "idle"
    /\ cfg = [Fakeroot |-> FALSE, CustomHome |-> FALSE, Namespaces |-> NoNamespaces]
    /\ params = [process |-> "", args |-> <<>>]
    /\ host = [uid |-> 0, gid |-> 0, subuid |-> NoRange, subgid |-> NoRange]
    /\ imageSpec = <<>>
    /\ spec = <<>>
    /\ config = <<>>
    /\ bundleDir = FALSE
    /\ rootfs = FALSE
    /\ ociTmp = "none"
    /\ sessionTmpfs = FALSE
    /\ deferArmed = FALSE
    /\ runErr = NoRun
    /\ result = Running
    /\ log = <<>>

\* Longest argument list (args, Entrypoint, Cmd) of the argv harness
MaxArgs == 2

SeqsUpTo(S, n) == UNION {[1..k -> S] : k \in 0..n}

InitArgs ==
    /\ Idle
    /\ fnIn \in [process : {"", "PROCESS"},
                  args : SeqsUpTo({"a1", "a2"}, MaxArgs),
                  Entrypoint : SeqsUpTo({"e1", "e2"}, MaxArgs),
                  Cmd : SeqsUpTo({"c1", "c2"}, MaxArgs)]
    /\ fnOut = <<>>

\* b.setProcessArgs(g) on a bundle with the drawn process, args and image
ApplySetProcessArgs ==
    /\ fnOut = <<>>
    /\ fnOut' = <<setProcessArgs(fnIn.process, fnIn.args,
                                 [Entrypoint |-> fnIn.Entrypoint, Cmd |-> fnIn.Cmd])>>
    /\ UNCHANGED <<execVars, fnIn>>

NextArgs == ApplySetProcessArgs

SpecArgs == InitArgs /\ [][NextArgs]_vars

\* Largest small target id and largest small subordinate range size of the
\* reverse-mapping harness
MaxID == 5

MaxRange == 4

TargetIDs == (0..MaxID) \cup {1000, 70000}

RangeSizes == (1..MaxRange) \cup {MinRangeSize}

InitMap ==
    /\ Idle
    /\ fnIn \in [targetUID : TargetIDs, targetGID : TargetIDs,
                  subuidSize : RangeSizes, subgidSize : RangeSizes]
    /\ fnOut = <<>>

\* reverseMapByRange(targetUID, targetGID, subuidRange, subgidRange)
ApplyReverseMapByRange ==
    /\ fnOut = <<>>
    /\ fnOut' = <<reverseMapByRange(fnIn.targetUID, fnIn.targetGID,
                                    Range(fnIn.subuidSize), Range(fnIn.subgidSize))>>
    /\ UNCHANGED <<execVars, fnIn>>

NextMap == ApplyReverseMapByRange

SpecMap == InitMap /\ [][NextMap]_vars

\* Longest add list and drop list of the capability harness
MaxCaps == 2

InitCaps ==
    /\ Idle
    /\ fnIn \in [NoPrivs : BOOLEAN, KeepPrivs : BOOLEAN,
                  AddCaps : SeqsUpTo(Capabilities, MaxCaps),
                  DropCaps : SeqsUpTo(Capabilities, MaxCaps),
                  current : CurrentCaps,
                  uid : {0, 1000}]
    /\ fnOut = <<>>

\* l.getBaseCapabilities() and l.getProcessCapabilities(uid) on a Launcher
\* with the drawn options
ApplyGetProcessCapabilities ==
    /\ fnOut = <<>>
    /\ fnOut' = <<[base |-> getBaseCapabilities(fnIn, fnIn.current),
                   caps |-> getProcessCapabilities(fnIn, fnIn.current, fnIn.uid)]>>
    /\ UNCHANGED <<execVars, fnIn>>

NextCaps == ApplyGetProcessCapabilities

SpecCaps == InitCaps /\ [][NextCaps]_vars

\* Largest number of option flags one NewLauncher request sets
MaxOptions == 2

\* The subsets of S of at most n elements
RECURSIVE SubsetsUpTo(_, _)
SubsetsUpTo(S, n) ==
    IF n = 0 THEN {{}}
    ELSE LET smaller == SubsetsUpTo(S, n - 1)
         IN  smaller \cup {x \cup {e} : x \in smaller, e \in S}

NoMounts ==
    {<<>>, <<NoMountValue(FALSE, "home")>>,
     <<NoMountValue(FALSE, "dev"), NoMountValue(TRUE, "/data")>>}

HomeRequests ==
    {[HomeDir |-> <<"/home/user">>, CustomHome |-> FALSE, Fakeroot |-> FALSE],
     [HomeDir |-> <<"/home/user">>, CustomHome |-> FALSE, Fakeroot |-> TRUE],
     [HomeDir |-> <<"/home/dest">>, CustomHome |-> TRUE, Fakeroot |-> FALSE],
     [HomeDir |-> <<"/home/src", "/home/dest">>, CustomHome |-> TRUE, Fakeroot |-> FALSE],
     [HomeDir |-> <<"a", "b", "c">>, CustomHome |-> TRUE, Fakeroot |-> FALSE]}

\* What the caller asks of NewLauncher through its launcher.Option list
Requests ==
    {[flags |-> f, Network |-> n, ConfigFile |-> c, NoMount |-> nm,
      HomeDir |-> h.HomeDir, CustomHome |-> h.CustomHome, Fakeroot |-> h.Fakeroot] :
        f \in SubsetsUpTo(OptionFlags, MaxOptions),
        n \in {"none", "bridge"},
        c \in {"", APPTAINER_CONF_FILE, "/etc/other.conf"},
        nm \in NoMounts,
        h \in HomeRequests}

InitOpts ==
    /\ Idle
    /\ fnIn \in Requests
    /\ fnOut = <<>>

\* The call of NewLauncher in progress: at is the statement it is at, lo the
\* options (<<>> until the opts are applied), steps the callees that ran.
Call(at, lo, err, warnings, launcher, steps) ==
    [at |-> at, lo |-> lo, err |-> err, warnings |-> warnings,
     launcher |-> launcher, steps |-> steps]

\* for _, opt := range opts { opt(&lo) }: an option function may fail
NewLauncherOptions ==
    /\ fnOut = <<>>
    /\ \E ok \in BOOLEAN :
         fnOut' = IF ok
                  THEN <<Call("checkOpts", <<Options(fnIn)>>, <<>>, <<>>, <<>>, <<>>)>>
                  ELSE <<Call("done", <<>>, <<[wraps |-> "option", names |-> <<>>]>>,
                              <<>>, <<>>, <<>>)>>
    /\ UNCHANGED <<execVars, fnIn>>

\* if err := checkOpts(lo); err != nil { return nil, err }
NewLauncherCheckOpts ==
    /\ fnOut # <<>> /\ Head(fnOut).at = "checkOpts"
    /\ LET c == Head(fnOut)
           r == checkOpts(Head(c.lo))
       IN  fnOut' = <<Call(IF r.err # <<>> THEN "done" ELSE "config",
                           c.lo, r.err, r.warnings, <<>>,
                           Append(c.steps, "checkOpts"))>>
    /\ UNCHANGED <<execVars, fnIn>>

\* c := apptainerconf.GetCurrentConfig(): nil when not initialized
NewLauncherConfig ==
    /\ fnOut # <<>> /\ Head(fnOut).at = "config"
    /\ \E initialized \in BOOLEAN :
         LET c == Head(fnOut)
         IN  fnOut' = <<Call(IF initialized THEN "parseHomeDir" ELSE "done",
                             c.lo,
                             IF initialized THEN <<>>
                             ELSE <<[wraps |-> "configuration", names |-> <<>>]>>,
                             c.warnings, <<>>,
                             Append(c.steps, "GetCurrentConfig"))>>
    /\ UNCHANGED <<execVars, fnIn>>

\* parseHomeDir and the return of the Launcher
NewLauncherHome ==
    /\ fnOut # <<>> /\ Head(fnOut).at = "parseHomeDir"
    /\ \E pw \in {<<>>, <<[HomeDir |-> "/home/user"]>>} :
         LET c == Head(fnOut)
             lo == Head(c.lo)
             h == parseHomeDir(lo.HomeDir, lo.CustomHome, lo.Fakeroot, pw)
         IN  fnOut' = <<Call("done", c.lo,
                             IF h.err THEN <<[wraps |-> "home", names |-> <<>>]>>
                             ELSE <<>>,
                             c.warnings,
                             IF h.err THEN <<>>
                             ELSE <<[cfg |-> lo, homeSrc |-> h.src, homeDest |-> h.dest]>>,
                             Append(c.steps, "parseHomeDir"))>>
    /\ UNCHANGED <<execVars, fnIn>>

NextOpts ==
    \/ NewLauncherOptions
    \/ NewLauncherCheckOpts
    \/ NewLauncherConfig
    \/ NewLauncherHome

SpecOpts == InitOpts /\ [][NextOpts]_vars

\* Longest image Env and largest env map of the environment harness
MaxImageEnv == 2

MaxBundleEnv == 2

\* Entries an image config declares
ImageEnvEntries ==
    {EnvEntry("PATH", <<"/foo">>), EnvEntry("PATH", <<>>),
     EnvEntry("LD_LIBRARY_PATH", <<"/foo">>),
     EnvEntry("LD_LIBRARY_PATH", <<"/foo", ":", "/.singularity.d/libs">>),
     EnvEntry("LD_LIBRARY_PATH", <<"/.singularity.d/libs", "64">>),
     EnvEntry("FOO", <<"bar">>), EnvEntry("FOO", <<"qux">>),
     BareEntry("JUNK")}

\* Entries of the env map of the bundle (native.OptProcessEnv)
BundleEnvEntries ==
    {EnvEntry("PATH", <<"/bar">>), EnvEntry("PATH", <<>>),
     EnvEntry("APPEND_PATH", <<"/app">>), EnvEntry("PREPEND_PATH", <<"/pre">>),
     EnvEntry("LD_LIBRARY_PATH", <<"/bar">>), EnvEntry("LD_LIBRARY_PATH", <<>>),
     EnvEntry("FOO", <<"baz">>), EnvEntry("ABC", <<"123">>)}

\* A map has one entry per key
DistinctKeys(env) ==
    \A i, j \in 1..Len(env) : i # j => env[i].k # env[j].k

InitEnv ==
    /\ Idle
    /\ fnIn \in [imageEnv : SeqsUpTo(ImageEnvEntries, MaxImageEnv),
                  env : {e \in SeqsUpTo(BundleEnvEntries, MaxBundleEnv) : DistinctKeys(e)}]
    /\ fnOut = <<>>

\* b.setProcessEnv(g) on a bundle with the drawn image config and env
ApplySetProcessEnv ==
    /\ fnOut = <<>>
    /\ fnOut' = <<setProcessEnv(fnIn.imageEnv, fnIn.env)>>
    /\ UNCHANGED <<execVars, fnIn>>

NextEnv == ApplySetProcessEnv

SpecEnv == InitEnv /\ [][NextEnv]_vars

\* Longest --bind list and longest --mount list of the bind harness
MaxBindPaths == 2

MaxMounts == 1

\* The bind paths of the tests, and a relative source that exists
BindPathValues ==
    {BindPath(Path(TRUE, <<"tmp">>), Path(TRUE, <<"tmp">>), FALSE, "", ""),
     BindPath(Path(TRUE, <<"data">>), Path(TRUE, <<"mnt">>), TRUE, "", ""),
     BindPath(Path(FALSE, <<"rel">>), Path(TRUE, <<"mnt">>), FALSE, "", ""),
     BindPath(Path(FALSE, <<"doesnotexist!">>), Path(TRUE, <<"mnt">>), FALSE, "", ""),
     BindPath(Path(TRUE, <<"tmp">>), Path(FALSE, <<"relative">>), FALSE, "", ""),
     BindPath(Path(TRUE, <<"myimage.sif">>), Path(TRUE, <<"mnt">>), FALSE, "4", "")}

BindRequests == {Request(b) : b \in BindPathValues} \cup {Malformed}

MountRequests ==
    {Request(BindPath(Path(TRUE, <<"tmp">>), Path(TRUE, <<"mnt">>), FALSE, "", "")),
     Request(BindPath(Path(TRUE, <<"myimage.sif">>), Path(TRUE, <<"mnt">>), FALSE, "", "/test")),
     Malformed}

\* The mount list getMounts hands over: the mounts added before the binds
MountsBefore ==
    {<<>>, <<[Source |-> Path(FALSE, <<"proc">>), Destination |-> Path(TRUE, <<"proc">>),
              Type |-> "proc", Options |-> <<>>]>>}

InitBinds ==
    /\ Idle
    /\ fnIn \in [BindPaths : SeqsUpTo(BindRequests, MaxBindPaths),
                  Mounts : SeqsUpTo(MountRequests, MaxMounts),
                  UserBindControl : BOOLEAN,
                  mounts : MountsBefore,
                  cwd : {<<>>, <<Cwd>>}]
    /\ fnOut = <<>>

\* l.addBindMounts(mounts) on a Launcher with the drawn requests
ApplyAddBindMounts ==
    /\ fnOut = <<>>
    /\ fnOut' = <<[fn |-> "addBindMounts", b |-> <<>>]
                  @@ addBindMounts(fnIn, fnIn.UserBindControl, fnIn.mounts, fnIn.cwd)>>
    /\ UNCHANGED <<execVars, fnIn>>

\* addBindMount(mounts, b) for one bind path
ApplyAddBindMount ==
    /\ fnOut = <<>>
    /\ \E b \in BindPathValues :
         fnOut' = <<[fn |-> "addBindMount", b |-> <<b>>, warned |-> FALSE]
                    @@ addBindMount(fnIn.mounts, b, fnIn.cwd)>>
    /\ UNCHANGED <<execVars, fnIn>>

NextBinds ==
    \/ ApplyAddBindMounts
    \/ ApplyAddBindMount

SpecBinds == InitBinds /\ [][NextBinds]_vars

\* The mount list of a launch: getMounts when createSpec builds the spec,
\* prepareEtc when finalizeSpec completes it.

\* The [abs, segs] form of the path strings of HomeRequests (<<>> for "")
PathOf(s) ==
    CASE s = "" -> <<>>
      [] s = "/root" -> <<Path(TRUE, <<"root">>)>>
      [] s = "/home/user" -> <<Path(TRUE, <<"home", "user">>)>>
      [] s = "/home/src" -> <<Path(TRUE, <<"home", "src">>)>>
      [] s = "/home/dest" -> <<Path(TRUE, <<"home", "dest">>)>>

\* The hosts of the mount harness: root, root without a tty group, a user,
\* a user without a passwd entry for user.CurrentOriginal
MountHosts ==
    LET group == <<[GID |-> 5]>>
        user == <<[Dir |-> Path(TRUE, <<"home", "user">>)]>>
        root == <<[Dir |-> Path(TRUE, <<"root">>)]>>
    IN  {[uid |-> 0, tty |-> group, pw |-> root, cwd |-> <<Cwd>>],
         [uid |-> 0, tty |-> <<>>, pw |-> root, cwd |-> <<Cwd>>],
         [uid |-> 1000, tty |-> group, pw |-> user, cwd |-> <<Cwd>>],
         [uid |-> 1000, tty |-> group, pw |-> <<>>, cwd |-> <<Cwd>>]}

\* --bind lists of the mount harness
MountBindPaths ==
    LET tmp == Request(BindPath(Path(TRUE, <<"tmp">>), Path(TRUE, <<"tmp">>), FALSE, "", ""))
        data == Request(BindPath(Path(TRUE, <<"data">>), Path(TRUE, <<"mnt">>), TRUE, "", ""))
        rel == Request(BindPath(Path(FALSE, <<"rel">>), Path(TRUE, <<"etc", "passwd">>), FALSE, "", ""))
        missing == Request(BindPath(Path(FALSE, <<"doesnotexist!">>), Path(TRUE, <<"mnt">>), FALSE, "", ""))
    IN  {<<>>, <<tmp>>, <<data, tmp>>, <<rel, data>>, <<tmp, missing>>}

\* The Launchers NewLauncher returns for HomeRequests
MountLaunchers ==
    {[cfg |-> [Fakeroot |-> r.Fakeroot, CustomHome |-> r.CustomHome,
               BindPaths |-> b, Mounts |-> m, DNS |-> <<>>],
      apptainerConf |-> [UserBindControl |-> c],
      homeSrc |-> PathOf(parseHomeDir(r.HomeDir, r.CustomHome, r.Fakeroot,
                                      <<[HomeDir |-> "/home/user"]>>).src),
      homeDest |-> PathOf(parseHomeDir(r.HomeDir, r.CustomHome, r.Fakeroot,
                                       <<[HomeDir |-> "/home/user"]>>).dest)] :
        r \in {q \in HomeRequests : ~parseHomeDir(q.HomeDir, q.CustomHome, q.Fakeroot,
                                                  <<[HomeDir |-> "/home/user"]>>).err},
        b \in MountBindPaths,
        m \in {<<>>, <<Request(BindPath(Path(TRUE, <<"data">>), Path(TRUE, <<"opt">>),
                                        FALSE, "", ""))>>},
        c \in BOOLEAN}

\* What prepareEtc finds: the configuration toggles, --dns, the files that
\* exist, the system call that fails, and whether the image declares a USER
EtcCases ==
    [ConfigPasswd : BOOLEAN, ConfigGroup : BOOLEAN, ConfigResolvConf : BOOLEAN,
     DNS : {<<>>, <<"10.0.0.1", "10.0.0.2">>, <<"10.0.0.1", "bad">>},
     files : SUBSET {filepathJoin(RootFs(BundlePath), <<"etc", "passwd">>),
                     filepathJoin(RootFs(BundlePath), <<"etc", "group">>),
                     Path(TRUE, <<"etc", "resolv.conf">>)},
     fail : {"none", "mkdir", "writePasswd", "writeGroup", "writeResolvConf"},
     containerUser : BOOLEAN]

InitMounts ==
    /\ Idle
    /\ fnIn \in [l : MountLaunchers, h : MountHosts]
    /\ fnOut = <<>>

\* createSpec: mounts, err := l.getMounts(); spec.Mounts = mounts
ApplyGetMounts ==
    /\ fnOut = <<>>
    /\ LET r == getMounts(fnIn.l, fnIn.h)
       IN  fnOut' = <<[at |-> IF r.err # <<>> THEN "failed" ELSE "created",
                       err |-> r.err, mounts |-> r.mounts, created |-> r.mounts,
                       wrote |-> <<>>, etc |-> <<>>]>>
    /\ UNCHANGED <<execVars, fnIn>>

\* finalizeSpec: l.prepareEtc(b, spec, containerUser) on the spec createSpec
\* returned
ApplyPrepareEtc ==
    /\ fnOut # <<>> /\ Head(fnOut).at = "created"
    /\ \E c \in EtcCases :
         LET l == [fnIn.l EXCEPT !.cfg.DNS = c.DNS,
                                 !.apptainerConf =
                                     [UserBindControl |-> @.UserBindControl,
                                      ConfigPasswd |-> c.ConfigPasswd,
                                      ConfigGroup |-> c.ConfigGroup,
                                      ConfigResolvConf |-> c.ConfigResolvConf]]
             r == prepareEtc(l, BundlePath, Head(fnOut).mounts, c.containerUser, c)
         IN  fnOut' = <<[at |-> IF r.err # <<>> THEN "failed" ELSE "finalized",
                         err |-> r.err, mounts |-> r.mounts,
                         created |-> Head(fnOut).created,
                         wrote |-> r.wrote, etc |-> <<c>>]>>
    /\ UNCHANGED <<execVars, fnIn>>

NextMounts ==
    \/ ApplyGetMounts
    \/ ApplyPrepareEtc

SpecMounts == InitMounts /\ [][NextMounts]_vars


\* Concurrent launches: the steps of Exec that touch buildcfg.SESSIONDIR, for
\* MaxLaunches processes running Exec at the same time.
MaxLaunches == 2

Launches == 1..MaxLaunches

\* The random suffixes os.MkdirTemp gives to "oci-bundle"
Suffixes == 1..MaxLaunches

\* The mount namespace launch i runs in: the one of the host for every launch
\* when fnIn.shared, otherwise one of its own
NsOf(i) == IF fnIn.shared THEN 0 ELSE i

Top(stack) == stack[Len(stack)]

\* A directory of a tmpfs instance: fs is the launch that mounted the tmpfs
Dir(fs, name) == [fs |-> fs, name |-> name]

Two == Head(fnOut)

\* What the path bundleDir of launch i resolves to: the directory of that
\* name in the tmpfs on top of SESSIONDIR in its namespace, <<>> if none
Resolve(i) ==
    LET stack == Two.stack[NsOf(i)]
    IN  IF stack = <<>> \/ Two.bundleDir[i] = <<>> THEN <<>>
        ELSE IF Dir(Top(stack), Head(Two.bundleDir[i])) \in Two.dirs
        THEN <<Dir(Top(stack), Head(Two.bundleDir[i]))>>
        ELSE <<>>

\* fs.ForceRemoveAll(bundleDir) / tools.DeleteBundle(bundlePath) by launch i
RemoveBundle(i) ==
    [Two EXCEPT !.dirs = @ \ {d \in @ : <<d>> = Resolve(i)},
                !.written = {w \in @ : <<w.dir>> # Resolve(i)}]

InitTwo ==
    /\ Idle
    /\ fnIn \in [shared : BOOLEAN]
    /\ fnOut = <<[at |-> [i \in Launches |-> "mount"],
                  stack |-> [n \in 0..MaxLaunches |-> <<>>],
                  dirs |-> {},
                  written |-> {},
                  bundleDir |-> [i \in Launches |-> <<>>],
                  own |-> [i \in Launches |-> <<>>]]>>

\* l.mountSessionTmpfs(): a new tmpfs on top of SESSIONDIR
LaunchMount(i) ==
    /\ Two.at[i] = "mount"
    /\ \E ok \in BOOLEAN :
         fnOut' = <<IF ok
                    THEN [Two EXCEPT !.at[i] = "mkdir",
                                     !.stack[NsOf(i)] = Append(@, i)]
                    ELSE [Two EXCEPT !.at[i] = "done"]>>
    /\ UNCHANGED <<execVars, fnIn>>

\* os.MkdirTemp(buildcfg.SESSIONDIR, "oci-bundle"): a directory with an
\* unused name in what SESSIONDIR shows; on failure Exec returns
LaunchMkdirTemp(i) ==
    /\ Two.at[i] = "mkdir"
    /\ \/ \E s \in Suffixes :
            LET stack == Two.stack[NsOf(i)]
            IN  /\ stack # <<>>
                /\ Dir(Top(stack), s) \notin Two.dirs
                /\ fnOut' = <<[Two EXCEPT !.at[i] = "build",
                                          !.dirs = @ \cup {Dir(Top(stack), s)},
                                          !.bundleDir[i] = <<s>>,
                                          !.own[i] = <<Dir(Top(stack), s)>>]>>
       \/ fnOut' = <<[Two EXCEPT !.at[i] = "done"]>>
    /\ UNCHANGED <<execVars, fnIn>>

\* createSpec to finalizeSpec: the bundle is written under the path
\* bundleDir; a failure runs the deferred removal of that path and returns
LaunchBuild(i) ==
    /\ Two.at[i] = "build"
    /\ \E ok \in BOOLEAN :
         fnOut' = <<IF ok /\ Resolve(i) # <<>>
                    THEN [Two EXCEPT !.at[i] = "run",
                                     !.written = @ \cup {[dir |-> Head(Resolve(i)),
                                                          by |-> i]}]
                    ELSE [RemoveBundle(i) EXCEPT !.at[i] = "done"]>>
    /\ UNCHANGED <<execVars, fnIn>>

\* RunWrapped: the runtime runs the bundle at the path bundleDir
LaunchRun(i) ==
    /\ Two.at[i] = "run"
    /\ fnOut' = <<[Two EXCEPT !.at[i] = "delete"]>>
    /\ UNCHANGED <<execVars, fnIn>>

\* b.Delete: removes what the path bundleDir shows
LaunchDelete(i) ==
    /\ Two.at[i] = "delete"
    /\ fnOut' = <<[RemoveBundle(i) EXCEPT !.at[i] = "unmount"]>>
    /\ UNCHANGED <<execVars, fnIn>>

\* l.unmountSessionTmpfs(): syscall.Unmount(SESSIONDIR, MNT_DETACH) detaches
\* the mount on top of SESSIONDIR, and what that tmpfs held goes with it
LaunchUnmount(i) ==
    /\ Two.at[i] = "unmount"
    /\ LET stack == Two.stack[NsOf(i)]
       IN  fnOut' = <<IF stack = <<>>
                      THEN [Two EXCEPT !.at[i] = "done"]
                      ELSE [Two EXCEPT !.at[i] = "done",
                                       !.stack[NsOf(i)] = SubSeq(stack, 1, Len(stack) - 1),
                                       !.dirs = {d \in @ : d.fs # Top(stack)},
                                       !.written = {w \in @ : w.dir.fs # Top(stack)}]>>
    /\ UNCHANGED <<execVars, fnIn>>

NextTwo ==
    \E i \in Launches :
        \/ LaunchMount(i)
        \/ LaunchMkdirTemp(i)
        \/ LaunchBuild(i)
        \/ LaunchRun(i)
        \/ LaunchDelete(i)
        \/ LaunchUnmount(i)

SpecTwo == InitTwo /\ [][NextTwo]_vars


----------------------------------------------------------------------------
(* Properties of the launch pipeline.                                      *)

\* The positions of Exec in program order
Positions ==
    <<"start", "mount", "mkdir", "cache", "createSpec", "new", "create", "fetch",
      "extract", "createEnd", "finalize", "update", "genid", "run", "delete",
      "unmount", "finish", "done">>

Rank(p) == CHOOSE i \in 1..Len(Positions) : Positions[i] = p

Elems(seq) == {seq[i] : i \in 1..Len(seq)}

PipelinePhases == <<"createSpec", "Create", "finalizeSpec", "Update">>

Invoked == runErr # NoRun

\* The finalized spec is persisted: finalizeSpec set Process and b.Update
\* wrote the spec to the bundle.
Written == "Update" \in Elems(log)

\* C1: RunWrapped is invoked only after createSpec, Bundle.Create, finalizeSpec
\* (spec.Process set from the image config) and Bundle.Update succeeded, in this
\* order, with the finalized spec in the bundle; a launch in which one of these
\* steps failed never invokes the runtime; and once the finalized spec is
\* written the spec is not changed again and Exec never returns to an earlier
\* position.
C1_RunOnlyAfterWritten ==
    /\ [](Invoked => (Len(log) = 5 /\ SubSeq(log, 1, 4) = PipelinePhases))
    /\ [](("RunWrapped" \in Elems(log)) <=> Invoked)
    /\ [][(~Invoked /\ Invoked') =>
            /\ log = PipelinePhases
            /\ Head(spec).Process # <<>>
            /\ Head(Head(spec).Process).Args =
                   getProcessArgs(Head(imageSpec), params.process, params.args)
            /\ config = spec]_vars
    /\ [][Written =>
            /\ spec' = spec
            /\ config' \in {config, <<>>}
            /\ Rank(pc') >= Rank(pc)]_vars

\* The runtime was invoked and the container ended with a non-zero status.
C1_Witness == Invoked /\ runErr.kind = "exit" /\ pc = "delete"

----------------------------------------------------------------------------
(* Properties of the argv and of the reverse ID mapping.                   *)

Applied == fnOut # <<>>

\* The argv table: Entrypoint then Cmd without overrides, Entrypoint then the
\* user args with args only, the process alone with the process only, the
\* process then the user args with both.
ArgvTable(process, args, entrypoint, cmd) ==
    CASE process = "" /\ args = <<>> -> entrypoint \o cmd
      [] process = "" /\ args # <<>> -> entrypoint \o args
      [] process # "" /\ args = <<>> -> <<process>>
      [] process # "" /\ args # <<>> -> <<process>> \o args

\* C3: for every combination of process override, args override, image
\* Entrypoint and image Cmd (each present or absent) the argv set on the bundle
\* is the one of the argv table.
C3_ArgvTable ==
    Applied => Head(fnOut) = ArgvTable(fnIn.process, fnIn.args, fnIn.Entrypoint, fnIn.Cmd)

\* A process override without args on an image that has a Cmd.
C3_Witness ==
    Applied /\ fnIn.process # "" /\ fnIn.args = <<>> /\ fnIn.Cmd # <<>>
            /\ fnIn.Entrypoint # <<>>

\* The containerID ranges of a mapping follow one another from 0
Contiguous(m) ==
    /\ m[1].ContainerID = 0
    /\ \A i \in 1..(Len(m) - 1) : m[i + 1].ContainerID = m[i].ContainerID + m[i].Size

\* No two triples of a mapping share a containerID
NonOverlapping(m) ==
    \A i, j \in 1..Len(m) :
        i < j => \/ m[i].ContainerID + m[i].Size <= m[j].ContainerID
                 \/ m[j].ContainerID + m[j].Size <= m[i].ContainerID

RECURSIVE TotalSize(_)
TotalSize(m) == IF m = <<>> THEN 0 ELSE Head(m).Size + TotalSize(Tail(m))

\* The statement of C4 as claimed, for one ID class: the third triple has
\* length size - targetID - 1 and the triples cover size IDs.
LowMapAsClaimed(m, t, size) ==
    /\ m = << Mapping(0, 1, t), Mapping(t, 0, 1), Mapping(t + 1, t + 1, size - t - 1) >>
    /\ Contiguous(m)
    /\ NonOverlapping(m)
    /\ TotalSize(m) = size

\* C4 as claimed: for targetID < size, reverseMapByRange returns for UID and
\* for GID the three triples (0 -> 1, targetID), (targetID -> 0, 1),
\* (targetID+1 -> targetID+1, size-targetID-1), contiguous from 0, not
\* overlapping, covering size IDs.
C4_ThreeTriplesCoverSize ==
    Applied =>
      /\ fnIn.targetUID < fnIn.subuidSize =>
            LowMapAsClaimed(Head(fnOut).uidMap, fnIn.targetUID, fnIn.subuidSize)
      /\ fnIn.targetGID < fnIn.subgidSize =>
            LowMapAsClaimed(Head(fnOut).gidMap, fnIn.targetGID, fnIn.subgidSize)

LowMap(m, t, size) ==
    /\ m = << Mapping(0, 1, t), Mapping(t, 0, 1), Mapping(t + 1, t + 1, size - t) >>
    /\ Contiguous(m)
    /\ NonOverlapping(m)
    /\ TotalSize(m) = size + 1

\* C4 amended: for targetID < size, reverseMapByRange returns for UID and for
\* GID, each from its own target and range, the three triples (0 -> 1,
\* targetID), (targetID -> 0, 1), (targetID+1 -> targetID+1, size-targetID),
\* contiguous from 0, not overlapping, covering size + 1 IDs.
C4_ThreeTriplesCoverSizePlusOne ==
    Applied =>
      /\ fnIn.targetUID < fnIn.subuidSize =>
            LowMap(Head(fnOut).uidMap, fnIn.targetUID, fnIn.subuidSize)
      /\ fnIn.targetGID < fnIn.subgidSize =>
            LowMap(Head(fnOut).gidMap, fnIn.targetGID, fnIn.subgidSize)

\* The boundary targetUID = size - 1, with a GID target of its own below its
\* range size.
C4_Witness ==
    /\ Applied
    /\ fnIn.targetUID = fnIn.subuidSize - 1
    /\ fnIn.targetGID < fnIn.subgidSize - 1
    /\ fnIn.targetGID # fnIn.targetUID
    /\ fnIn.subgidSize # fnIn.subuidSize

HighMap(m, t, size) ==
    /\ m = << Mapping(0, 1, size), Mapping(t, 0, 1) >>
    /\ NonOverlapping(m)
    /\ TotalSize(m) = size + 1

\* C5: for targetID >= size, reverseMapByRange returns for UID and for GID,
\* each from its own target and range, the two triples (0 -> 1, size) and
\* (targetID -> 0, 1), not overlapping, covering size + 1 IDs.
C5_TwoTriplesCoverSizePlusOne ==
    Applied =>
      /\ fnIn.targetUID >= fnIn.subuidSize =>
            HighMap(Head(fnOut).uidMap, fnIn.targetUID, fnIn.subuidSize)
      /\ fnIn.targetGID >= fnIn.subgidSize =>
            HighMap(Head(fnOut).gidMap, fnIn.targetGID, fnIn.subgidSize)

\* The boundary targetUID = size, with a GID target above its own range size.
C5_Witness ==
    /\ Applied
    /\ fnIn.targetUID = fnIn.subuidSize
    /\ fnIn.targetGID > fnIn.subgidSize
    /\ fnIn.subgidSize # fnIn.subuidSize

----------------------------------------------------------------------------
(* Properties of the identity finalizeSpec gives the container process.    *)

\* finalizeSpec returned without error (b.Update may still be pending)
Finalized == "finalizeSpec" \in Elems(log)

ProcessUser == Head(Head(spec).Process).User

Unprivileged == host.uid # 0

UserDeclared == Head(imageSpec).User # <<>>

RootOntoRoot(m) == \E i \in 1..Len(m) : m[i].ContainerID = 0 /\ m[i].HostID = 0

\* C6: in the UID and the GID mapping finalizeSpec installs for an
\* unprivileged launch with a non-zero target UID, no triple maps containerID
\* 0 onto hostID 0.
C6_NoRootOntoRoot ==
    (Finalized /\ Unprivileged /\ ProcessUser.UID # 0) =>
        /\ ~RootOntoRoot(Head(spec).UIDMappings)
        /\ ~RootOntoRoot(Head(spec).GIDMappings)

ZeroSized(m) == \E i \in 1..Len(m) : m[i].Size <= 0

\* C7 as claimed: under fakeroot with current UID 1000 the target is 0:0, the
\* installed mappings are the reverse mapping of target 0 (the three-triple
\* branch) and none of their triples has a size of zero or less.
C7_FakerootReverseMapOfZero ==
    (Finalized /\ cfg.Fakeroot /\ host.uid = 1000) =>
        /\ ProcessUser = [UID |-> 0, GID |-> 0]
        /\ Len(Head(spec).UIDMappings) = 3
        /\ Len(Head(spec).GIDMappings) = 3
        /\ Head(spec).UIDMappings[2] = Mapping(0, 0, 1)
        /\ ~ZeroSized(Head(spec).UIDMappings)
        /\ ~ZeroSized(Head(spec).GIDMappings)

\* finalizeSpec ran to its end in this step
FinalizeStep == pc = "finalize" /\ pc' = "update"

\* C7 amended: under fakeroot with current UID 1000 the target is 0:0 and
\* finalizeSpec computes no reverse mapping: it leaves the UID mappings, the
\* GID mappings and the namespace list of the spec as they were, so it adds no
\* triple at all, of zero or negative size or other.
C7_FakerootNoReverseMap ==
    [][(FinalizeStep /\ cfg.Fakeroot /\ host.uid = 1000) =>
        /\ ProcessUser' = [UID |-> 0, GID |-> 0]
        /\ Head(spec').UIDMappings = Head(spec).UIDMappings
        /\ Head(spec').GIDMappings = Head(spec).GIDMappings
        /\ Head(spec').Namespaces = Head(spec).Namespaces]_vars

\* Fakeroot launch of user 1000 on an image that declares a non-root USER.
C7_Witness ==
    /\ Finalized /\ cfg.Fakeroot /\ host.uid = 1000
    /\ UserDeclared /\ Head(Head(imageSpec).User).UID # 0

SameIdentity ==
    /\ Finalized /\ ~cfg.Fakeroot /\ ~UserDeclared
    /\ host.uid = 1000 /\ host.gid = 1000

\* C8 as claimed: with target 1000:1000 equal to the current identity
\* finalizeSpec adds no UID/GID mapping and no user namespace, and the process
\* user is 1000:1000.
C8_SameIdentityNoMapping ==
    SameIdentity =>
        /\ Head(spec).UIDMappings = <<>>
        /\ Head(spec).GIDMappings = <<>>
        /\ UserNamespace \notin Elems(Head(spec).Namespaces)
        /\ ProcessUser = [UID |-> 1000, GID |-> 1000]

\* C8 amended: with target 1000:1000 equal to the current identity
\* finalizeSpec installs the reverse mappings of 1000 (container 1000 onto
\* host 0, the ids below shifted up by one, the ids above passed through),
\* appends a user-namespace entry to the namespace list, and the process user
\* is 1000:1000.
C8_SameIdentityReverseMapped ==
    [][(FinalizeStep /\ SameIdentity') =>
        /\ Head(spec').UIDMappings =
              << Mapping(0, 1, 1000), Mapping(1000, 0, 1),
                 Mapping(1001, 1001, host.subuid.Size - 1000) >>
        /\ Head(spec').GIDMappings =
              << Mapping(0, 1, 1000), Mapping(1000, 0, 1),
                 Mapping(1001, 1001, host.subgid.Size - 1000) >>
        /\ Head(spec').Namespaces = Append(Head(spec).Namespaces, UserNamespace)
        /\ ProcessUser' = [UID |-> 1000, GID |-> 1000]]_vars

C8_Witness == SameIdentity /\ Written

HasMappings(sp) == sp.UIDMappings # <<>> \/ sp.GIDMappings # <<>>

\* C9: the launcher's spec and the config written to the bundle never hold a
\* UID or GID mapping without a user-namespace entry in the namespace list.
C9_MappingsNeedUserNamespace ==
    /\ (spec # <<>> /\ HasMappings(Head(spec))) =>
            UserNamespace \in Elems(Head(spec).Namespaces)
    /\ (config # <<>> /\ HasMappings(Head(config))) =>
            UserNamespace \in Elems(Head(config).Namespaces)

\* The bundle holds the config Create wrote with mappings, and later the
\* finalized spec with mappings.
C9_Witness ==
    /\ Written /\ config = spec /\ HasMappings(Head(config))

\* C10: the process user of the finalized spec is 0:0 under fakeroot, also when
\* the image declares a USER; else the uid:gid of the declared USER; else the
\* real uid:gid of the invoking user.
C10_ProcessUser ==
    Finalized =>
        ProcessUser =
            IF cfg.Fakeroot THEN [UID |-> 0, GID |-> 0]
            ELSE IF UserDeclared THEN Head(Head(imageSpec).User)
            ELSE [UID |-> host.uid, GID |-> host.gid]

\* Fakeroot on an image that declares a non-root USER, spec written.
C10_Witness ==
    /\ Written /\ cfg.Fakeroot /\ UserDeclared
    /\ Head(Head(imageSpec).User).UID # 0 /\ host.uid # 0

----------------------------------------------------------------------------
(* Properties of the process capabilities (SpecCaps).                      *)

CapSets == {"Permitted", "Effective", "Bounding", "Inheritable", "Ambient"}

ProcessCaps == Head(fnOut).caps

\* The capabilities (base + add) - drop as a set
BasePlusAddLessDrop ==
    (Elems(Head(fnOut).base) \cup Elems(fnIn.AddCaps)) \ Elems(fnIn.DropCaps)

C12_BoundingHoldsPermitted ==
    Applied => Elems(ProcessCaps.Permitted) \subseteq Elems(ProcessCaps.Bounding)

\* A non-root target with a capability that is both added and dropped and
\* another that is only added: the permitted set is not empty
C12_Witness ==
    /\ Applied
    /\ ~fnIn.NoPrivs
    /\ fnIn.uid # 0
    /\ Elems(fnIn.AddCaps) \cap Elems(fnIn.DropCaps) # {}
    /\ ProcessCaps.Permitted # <<>>

----------------------------------------------------------------------------
(* Properties of NewLauncher (SpecOpts).                                   *)

NewLauncherReturned == fnOut # <<>> /\ Head(fnOut).at = "done"

\* The unsupported options a request sets, by the name checkOpts gives them
UnsupportedRequested ==
    (fnIn.flags \ {"WritableTmpfs", "Namespaces.Net"})
    \cup (IF "Namespaces.Net" \in fnIn.flags /\ fnIn.Network # "none"
          THEN {"Network (except none)"} ELSE {})
    \cup (IF fnIn.ConfigFile \notin {"", APPTAINER_CONF_FILE}
          THEN {"ConfigFile"} ELSE {})

WrapsUnsupported(err) == err # <<>> /\ Head(err).wraps = ErrUnsupportedOption

\* C14: once the options are applied, NewLauncher fails with an error
\* wrapping ErrUnsupportedOption exactly when an unsupported option is set;
\* the error names every unsupported option that is set; nothing but
\* checkOpts ran before it is returned; and a request whose only unsupported
\* part is a --no-mount value is warned about and not refused by checkOpts.
C14_UnsupportedOptionsRefused ==
    NewLauncherReturned =>
        LET c == Head(fnOut)
        IN  /\ WrapsUnsupported(c.err) <=> (c.lo # <<>> /\ UnsupportedRequested # {})
            /\ WrapsUnsupported(c.err) =>
                 /\ Elems(Head(c.err).names) = UnsupportedRequested
                 /\ c.steps = <<"checkOpts">>
                 /\ c.launcher = <<>>
            /\ "parseHomeDir" \in Elems(c.steps) =>
                 c.steps = <<"checkOpts", "GetCurrentConfig", "parseHomeDir">>
            /\ (c.lo # <<>> /\ UnsupportedRequested = {} /\ c.warnings # <<>>) =>
                 ~WrapsUnsupported(c.err)

\* Two unsupported options and an unsupported --no-mount value were
\* requested and the call was refused
C14_Witness ==
    /\ NewLauncherReturned
    /\ Cardinality(UnsupportedRequested) >= 2
    /\ WrapsUnsupported(Head(fnOut).err)
    /\ Head(fnOut).warnings # <<>>

\* Only an unsupported --no-mount value was requested and the Launcher was
\* returned
C14_WitnessNoMount ==
    /\ NewLauncherReturned
    /\ UnsupportedRequested = {}
    /\ Head(fnOut).warnings # <<>>
    /\ Head(fnOut).launcher # <<>>

----------------------------------------------------------------------------
(* Properties of the process environment (SpecEnv).                        *)

FinalEnv == Head(fnOut)

\* The values the final env gives to key
FinalValues(key) == {FinalEnv[i].v : i \in {j \in 1..Len(FinalEnv) : FinalEnv[j].k = key}}

Supplied(key) == \E i \in 1..Len(fnIn.env) : fnIn.env[i].k = key

\* The value the user supplied for key, "" when none
SuppliedValue(key) ==
    IF Supplied(key)
    THEN fnIn.env[CHOOSE i \in 1..Len(fnIn.env) : fnIn.env[i].k = key].v
    ELSE <<>>

\* The user's value for key if given, else the image's
BaseValue(key) ==
    IF Supplied(key) THEN SuppliedValue(key) ELSE ImageValue(fnIn.imageEnv, key)

\* The parts that are not empty, joined by ":"
RECURSIVE JoinNonEmpty(_)
JoinNonEmpty(parts) ==
    IF parts = <<>> THEN <<>>
    ELSE LET rest == JoinNonEmpty(Tail(parts))
         IN  IF Head(parts) = <<>> THEN rest
             ELSE IF rest = <<>> THEN Head(parts)
             ELSE Head(parts) \o <<":">> \o rest

\* The segments of a ":"-separated list
RECURSIVE Segments(_)
Segments(list) ==
    IF \A i \in 1..Len(list) : list[i] # ":" THEN <<list>>
    ELSE LET c == CHOOSE i \in 1..Len(list) :
                      list[i] = ":" /\ \A j \in 1..(i - 1) : list[j] # ":"
         IN  <<SubSeq(list, 1, c - 1)>> \o Segments(SubSeq(list, c + 1, Len(list)))

HasEmptySegment(list) == <<>> \in Elems(Segments(list))

\* C15: the final PATH is PREPEND_PATH, the base PATH (the user's if given,
\* else the image's) and APPEND_PATH, those that are not empty, joined by
\* ":" in that order, without an empty segment; there is no PATH when all
\* three are empty.
C15_PathJoinsNonEmptyParts ==
    Applied =>
        LET expected == JoinNonEmpty(<<SuppliedValue("PREPEND_PATH"), BaseValue("PATH"),
                                       SuppliedValue("APPEND_PATH")>>)
        IN  /\ expected = <<>> => FinalValues("PATH") = {}
            /\ expected # <<>> => FinalValues("PATH") = {expected}
            /\ \A v \in FinalValues("PATH") : ~HasEmptySegment(v)

\* C16: the final env has an LD_LIBRARY_PATH whose list holds the
\* helper-library directory; it is the user's value if given, else the
\* image's, with the directory appended only when the list does not hold it.
C16_LdLibraryPathHoldsLibs ==
    Applied =>
        LET base == BaseValue("LD_LIBRARY_PATH")
            held == apptainerLibs \in Elems(Segments(base))
        IN  /\ FinalValues("LD_LIBRARY_PATH") # {}
            /\ \A v \in FinalValues("LD_LIBRARY_PATH") :
                 /\ apptainerLibs \in Elems(Segments(v))
                 /\ v = IF held THEN base ELSE JoinNonEmpty(<<base, apptainerLibs>>)

\* C17: every key appears at most once in the final env, a user-supplied
\* value of an ordinary key replaces the image's, and APPEND_PATH and
\* PREPEND_PATH are not keys of the final env.
C17_EnvKeysUnique ==
    Applied =>
        /\ \A i, j \in 1..Len(FinalEnv) : i # j => FinalEnv[i].k # FinalEnv[j].k
        /\ \A k \in {"FOO", "ABC"} : Supplied(k) => FinalValues(k) = {SuppliedValue(k)}
        /\ FinalValues("APPEND_PATH") = {} /\ FinalValues("PREPEND_PATH") = {}

----------------------------------------------------------------------------
(* Properties of the bind mounts (SpecBinds).                              *)

Called(fn) == Applied /\ Head(fnOut).fn = fn

\* The binds a call of addBindMounts asks for, when every request parses
RequestedBinds == ParseRequests(fnIn.BindPaths \o fnIn.Mounts)

\* C18: when addBindMounts or addBindMount returns an error, the mount list
\* is the one the call was given: no mount of the call stays in it.
C18_ErrorLeavesMountsUnchanged ==
    (Applied /\ Head(fnOut).err # <<>>) => Head(fnOut).mounts = fnIn.mounts

\* C19: addBindMount returns an error and appends no mount for a bind whose
\* destination is not an absolute path.
C19_RelativeDestinationRejected ==
    (Called("addBindMount") /\ ~Head(Head(fnOut).b).Destination.abs) =>
        /\ Head(fnOut).err # <<>>
        /\ Head(fnOut).mounts = fnIn.mounts

\* C20: as claimed. With user bind control disabled addBindMounts returns no
\* error and appends no mount, whatever the --bind and --mount requests are.
C20_DisabledBindsIgnored ==
    (Called("addBindMounts") /\ ~fnIn.UserBindControl) =>
        /\ Head(fnOut).err = <<>>
        /\ Head(fnOut).mounts = fnIn.mounts

\* C20 (amended): with user bind control disabled addBindMounts appends no
\* mount, and returns no error for every list of requests that parse; a
\* request that does not parse is still an error.
C20_DisabledParsedBindsIgnored ==
    (Called("addBindMounts") /\ ~fnIn.UserBindControl) =>
        /\ Head(fnOut).mounts = fnIn.mounts
        /\ Head(fnOut).err = <<>> <=> ~RequestedBinds.err
        /\ Head(fnOut).warned <=> (~RequestedBinds.err /\ RequestedBinds.binds # <<>>)

\* User bind control is disabled and the requests hold a bind that would be
\* added and one that would be refused
C20_Witness ==
    /\ Called("addBindMounts")
    /\ ~fnIn.UserBindControl
    /\ ~RequestedBinds.err
    /\ \E i, j \in 1..Len(RequestedBinds.binds) :
         /\ addBindMount(<<>>, RequestedBinds.binds[i], fnIn.cwd).err = <<>>
         /\ addBindMount(<<>>, RequestedBinds.binds[j], fnIn.cwd).err # <<>>
    /\ Head(fnOut).warned

----------------------------------------------------------------------------
(* Properties of the mount list (SpecMounts).                              *)

MountCall == Head(fnOut)

\* prepareEtc returned nil: the spec is finalized
MountsFinalized == fnOut # <<>> /\ MountCall.at = "finalized"

\* prepareEtc ran, whatever it returned
EtcPrepared == fnOut # <<>> /\ MountCall.etc # <<>>

\* p is inside directory dir
Under(p, dir) ==
    /\ p.abs = dir.abs
    /\ Len(p.segs) > Len(dir.segs)
    /\ SubSeq(p.segs, 1, Len(dir.segs)) = dir.segs

BundleEtc == filepathJoin(BundlePath, <<"etc">>)

\* The mounts prepareEtc appended to the list createSpec built
EtcMounts == SubSeq(MountCall.mounts, Len(MountCall.created) + 1, Len(MountCall.mounts))

FixedDestinations ==
    <<Path(TRUE, <<"proc">>), Path(TRUE, <<"sys">>), Path(TRUE, <<"dev">>),
      Path(TRUE, <<"dev", "pts">>), Path(TRUE, <<"dev", "shm">>),
      Path(TRUE, <<"dev", "mqueue">>), Path(TRUE, <<"tmp">>),
      Path(TRUE, <<"var", "tmp">>)>>

\* Position of the home mount
HomeAt == Len(FixedDestinations) + 1

\* The binds the launch asks for, in request order: --bind, then --mount
AskedBinds ==
    IF fnIn.l.apptainerConf.UserBindControl
    THEN [i \in 1..Len(fnIn.l.cfg.BindPaths) |-> fnIn.l.cfg.BindPaths[i].b]
         \o [i \in 1..Len(fnIn.l.cfg.Mounts) |-> fnIn.l.cfg.Mounts[i].b]
    ELSE <<>>

EtcRank(m) ==
    CASE m.Destination = Path(TRUE, <<"etc", "resolv.conf">>) -> 1
      [] m.Destination = Path(TRUE, <<"etc", "passwd">>) -> 2
      [] m.Destination = Path(TRUE, <<"etc", "group">>) -> 3
      [] OTHER -> 0

\* C21: the mounts of a finalized spec are, in this order: /proc, /sys, /dev,
\* /dev/pts, /dev/shm, /dev/mqueue; /tmp, /var/tmp and the home; the user
\* binds in request order; the synthesized /etc/resolv.conf, /etc/passwd and
\* /etc/group binds. So no user bind follows a synthesized file and no fixed
\* mount follows a user bind.
C21_MountOrder ==
    MountsFinalized =>
        LET mounts == MountCall.mounts
            nBinds == Len(AskedBinds)
        IN  /\ Len(mounts) >= HomeAt + nBinds
            /\ \A i \in 1..Len(FixedDestinations) :
                   /\ mounts[i].Destination = FixedDestinations[i]
                   /\ ~Under(mounts[i].Source, BundlePath)
            /\ mounts[HomeAt].Type = "tmpfs"
            /\ \A i \in 1..nBinds :
                   /\ mounts[HomeAt + i].Destination = AskedBinds[i].Destination
                   /\ mounts[HomeAt + i].Source
                          = filepathAbs(AskedBinds[i].Source, fnIn.h.cwd).path
                   /\ mounts[HomeAt + i].Type = "none"
            /\ \A i \in (HomeAt + nBinds + 1)..Len(mounts) :
                   /\ Under(mounts[i].Source, BundleEtc)
                   /\ EtcRank(mounts[i]) > 0
                   /\ \A j \in (HomeAt + nBinds + 1)..(i - 1) :
                          EtcRank(mounts[j]) < EtcRank(mounts[i])

\* A finalized list with two user binds, one of them onto /etc/passwd, and
\* the three synthesized files
C21_Witness ==
    /\ MountsFinalized
    /\ Len(AskedBinds) >= 2
    /\ \E i \in 1..Len(AskedBinds) :
           AskedBinds[i].Destination = Path(TRUE, <<"etc", "passwd">>)
    /\ Len(EtcMounts) = 3

\* C22: synthesizing /etc/resolv.conf, /etc/passwd and /etc/group writes
\* nothing in the rootfs of the bundle: every file is written in <bundle>/etc
\* and is the source of a bind mount onto the /etc path of the same name, and
\* no mount prepareEtc adds has another source.
C22_EtcFilesOutsideRootfs ==
    EtcPrepared =>
        LET wrote == MountCall.wrote
        IN  /\ \A i \in 1..Len(wrote) :
                   /\ ~Under(wrote[i], RootFs(BundlePath))
                   /\ wrote[i] # RootFs(BundlePath)
                   /\ wrote[i] = BundleEtc \/ Under(wrote[i], BundleEtc)
                   /\ wrote[i] # BundleEtc =>
                          \E k \in 1..Len(EtcMounts) : EtcMounts[k].Source = wrote[i]
            /\ \A k \in 1..Len(EtcMounts) :
                   /\ \E i \in 1..Len(wrote) : wrote[i] = EtcMounts[k].Source
                   /\ EtcMounts[k].Type = "none"
                   /\ EtcMounts[k].Options = <<"bind">>
                   /\ \E name \in {"resolv.conf", "passwd", "group"} :
                          /\ EtcMounts[k].Source = filepathJoin(BundleEtc, <<name>>)
                          /\ EtcMounts[k].Destination = Path(TRUE, <<"etc", name>>)

\* The three files were written while the rootfs holds a passwd and a group
\* file of its own
C22_Witness ==
    /\ EtcPrepared
    /\ Len(MountCall.wrote) = 4
    /\ Len(EtcMounts) = 3
    /\ Cardinality(Head(MountCall.etc).files) = 3

IsEtcFile(p, names) == \E name \in names : p = filepathJoin(BundleEtc, <<name>>)

\* C23 as claimed: when the image declares a USER, prepareEtc creates none of
\* passwd, group and resolv.conf in the bundle and adds none to the mounts.
C23_UserSkipsEtcFiles ==
    (EtcPrepared /\ Head(MountCall.etc).containerUser) =>
        /\ \A i \in 1..Len(MountCall.wrote) :
               ~IsEtcFile(MountCall.wrote[i], {"passwd", "group", "resolv.conf"})
        /\ EtcMounts = <<>>

\* prepareResolvConf wrote the file and returned its mount
ResolvConfPrepared ==
    LET c == Head(MountCall.etc)
    IN  /\ c.ConfigResolvConf
        /\ c.fail \notin {"mkdir", "writeResolvConf"}
        /\ \A i \in 1..Len(c.DNS) : c.DNS[i] \in ValidIPs
        /\ c.DNS = <<>> => Path(TRUE, <<"etc", "resolv.conf">>) \in c.files

\* C23: when the image declares a USER, prepareEtc creates neither passwd nor
\* group in the bundle and adds neither to the mounts; resolv.conf is created
\* and mounted all the same, exactly when it would be for an image without a
\* USER.
C23_UserSkipsPasswdGroup ==
    (EtcPrepared /\ Head(MountCall.etc).containerUser) =>
        /\ \A i \in 1..Len(MountCall.wrote) :
               ~IsEtcFile(MountCall.wrote[i], {"passwd", "group"})
        /\ EtcMounts = IF ResolvConfPrepared
                       THEN <<EtcBind(filepathJoin(BundleEtc, <<"resolv.conf">>),
                                      "resolv.conf")>>
                       ELSE <<>>
        /\ ResolvConfPrepared <=>
               \E i \in 1..Len(MountCall.wrote) :
                   IsEtcFile(MountCall.wrote[i], {"resolv.conf"})

\* An image with a USER whose rootfs has passwd and group, everything enabled
C23_Witness ==
    /\ MountsFinalized
    /\ Head(MountCall.etc).containerUser
    /\ Head(MountCall.etc).ConfigPasswd /\ Head(MountCall.etc).ConfigGroup
    /\ Cardinality(Head(MountCall.etc).files) = 3
    /\ Len(EtcMounts) = 1

\* getMounts returned the list
MountsCreated == fnOut # <<>> /\ MountCall.created # <<>>

\* C24: the home mount follows the parsed home spec: with fakeroot and no
\* custom home a tmpfs at /root; with a src:dest home a bind of src onto dest
\* instead of a tmpfs; with a single custom path a tmpfs at that path;
\* otherwise a tmpfs at the home of the user.
C24_HomeMountFollowsHomeSpec ==
    MountsCreated =>
        LET home == MountCall.created[HomeAt]
            l == fnIn.l
        IN  IF l.cfg.Fakeroot /\ ~l.cfg.CustomHome
            THEN home.Type = "tmpfs" /\ home.Destination = Path(TRUE, <<"root">>)
            ELSE IF l.cfg.CustomHome /\ l.homeSrc # <<>>
            THEN /\ home.Type = "none"
                 /\ home.Source = Head(l.homeSrc)
                 /\ home.Destination = Head(l.homeDest)
            ELSE IF l.cfg.CustomHome
            THEN home.Type = "tmpfs" /\ home.Destination = Head(l.homeDest)
            ELSE home.Type = "tmpfs" /\ home.Destination = Head(fnIn.h.pw).Dir

----------------------------------------------------------------------------
(* Properties of the way Launcher.Exec ends.                               *)

\* The step that ends Exec
Ends == pc # "done" /\ pc' = "done"

\* The step ends Exec with the error of a step of the launcher itself: every
\* early return, and RunWrapped failing otherwise than by the exit status of
\* the runtime
InternalFailure ==
    /\ Ends
    /\ pc = "finish" => runErr.kind = "other"

\* C25: when the runtime exits non-zero the launch ends with exactly that exit
\* code, and only after b.Delete and unmountSessionTmpfs were attempted; a
\* failure of the launcher itself is returned as an error and never ends the
\* launch as an exit code of the container does.
C25_ExitCodeOrError ==
    /\ [][pc' = "unmount" => pc = "delete"]_vars
    /\ [][pc' = "finish" => pc = "unmount"]_vars
    /\ [][(Ends /\ pc = "finish" /\ runErr.kind = "exit") =>
            result' = [kind |-> "exited", err |-> FALSE, code |-> runErr.code]]_vars
    /\ [][(result'.kind = "exited" /\ result.kind # "exited") =>
            (pc = "finish" /\ runErr.kind = "exit")]_vars
    /\ [][InternalFailure => (result'.kind = "returned" /\ result'.err)]_vars

\* The positions of Exec before the runtime is invoked at which a step can
\* fail: bundle directory, cache, createSpec, native.New, Bundle.Create
\* (config, temporary layout, fetch, extraction, config.json), finalizeSpec
BeforeRun ==
    {"mkdir", "cache", "createSpec", "new", "create", "fetch", "extract",
     "createEnd", "finalize", "update"}

\* C26: every failure before the runtime is invoked (bundle directory
\* creation, cache setup, createSpec, Bundle.Create with the reading of the
\* image, finalizeSpec) makes Exec return a non-nil error.
C26_EarlyFailureReturnsError ==
    [][(Ends /\ pc \in BeforeRun) => (result'.kind = "returned" /\ result'.err)]_vars

\* A subordinate range the bundle cannot use: none, or fewer than 65536 ids
Unusable(range) == ~range.ok \/ range.Size < MinRangeSize

\* C28: for a non-root user Bundle.Create fails with an error whenever the
\* subuid or the subgid range is unavailable or smaller than 65536, and then
\* no ID mapping and no user namespace is added to the config.
C28_UnusableRangeFailsCreate ==
    [][(pc = "createEnd" /\ host.uid # 0
        /\ (Unusable(host.subuid) \/ Unusable(host.subgid))) =>
            /\ pc' = "done"
            /\ result'.kind = "returned" /\ result'.err
            /\ config' = <<>>]_vars

C30_SessionTmpfsUnmounted ==
    [][(Ends /\ sessionTmpfs) => pc = "finish"]_vars

----------------------------------------------------------------------------
(* Properties of concurrent launches (SpecTwo).                            *)

\* Launch i created its bundle directory and has not yet deleted it or
\* returned
InUse(i) == Two.at[i] \in {"build", "run"}

\* C27: two concurrent launches use distinct bundle directories, and while a
\* launch uses its bundle directory no step of the other launch (bundle
\* creation, session tmpfs mount or unmount, cleanup) removes it, hides it or
\* writes into it.
C27_BundleDirsUndisturbed ==
    \A i \in Launches :
        /\ \A j \in Launches \ {i} :
               (InUse(i) /\ InUse(j)) => Two.own[i] # Two.own[j]
        /\ InUse(i) =>
               /\ Head(Two.own[i]) \in Two.dirs
               /\ Resolve(i) = Two.own[i]
               /\ \A w \in Two.written : w.dir = Head(Two.own[i]) => w.by = i

====
